---------------------------- MODULE Spec2Model ----------------------------
(***************************************************************************)
(* A model of the Zen Garden cog (src/arg/arg.py): the profile store, the  *)
(* in-memory lock table, the two-party trade protocol, the fusion resolver *)
(* and the growth loop.                                                    *)
(*                                                                         *)
(* Granularity.  The cog runs on one asyncio event loop.  A handler runs   *)
(* without interruption up to an await that really suspends (a save to the *)
(* config store, a message sent, a sleep, a wait for a reply); every such  *)
(* piece is one action here, and the handler's position and locals are     *)
(* kept in the variable tasks between two pieces.                          *)
(***************************************************************************)
EXTENDS Integers, Sequences, FiniteSets, TLC

VARIABLES
    balance,            \* user -> sun balance                 (user_data["balance"])
    garden,             \* user -> [1..12 -> slot]             (user_data["garden"])
    inventory,          \* user -> [item id -> quantity]       (user_data["inventory"])
    fusions,            \* user -> list of discovered fusion ids (user_data["fusions"])
    storage,            \* user -> [1..8 -> slot]              (user_data["storage_shed_slots"])
    locks,              \* the lock records, one per locked user (LockHelper._locks)
    pending_trades,     \* trade id -> trade details           (TradeHelper.pending_trades)
    tasks,              \* the suspended handlers (coroutines), with their locals
    now,                \* int(time.time())
    flags,              \* the global flags                    (self.data["flags"])
    mastery,            \* user -> sun mastery level           (user_data["mastery"])
    time_mastery,       \* user -> time mastery level          (user_data["time_mastery"])
    last_daily,         \* user -> date of the last stipend   (user_data["last_daily"])
    tick,               \* the growth loop: idle, or its position inside a cycle
    all_fusions,        \* the fusion catalog, in file order   (FusionHelper.all_fusions)
    call                \* the last direct call of a helper function and its result

profileVars == <<balance, garden, inventory, fusions, storage, mastery, time_mastery, last_daily>>
tradeVars   == <<locks, pending_trades, tasks, now>>
vars == <<balance, garden, inventory, fusions, storage, mastery, time_mastery, last_daily, locks,
          pending_trades, tasks, now, flags, tick, all_fusions, call>>

---------------------------------------------------------------------------
(* Bounds of the model.                                                    *)

MaxRecipeLen == 2       \* longest recipe of the fusion whose recipe is varied
MaxAssets    == 3       \* longest asset pool given to the plan search
MaxComponents == 3      \* longest component list given to find_fusion_match

---------------------------------------------------------------------------
(* The catalog: base plants, materials, fusions.                           *)

\* Python's None where a catalog entry or a plan is expected
None == [id |-> "None"]

BasePlantNames == {"A", "B", "C"}            \* names of base_plants.json entries
MaterialIds == {"m"}                         \* keys of materials.json
MaterialsData == [i \in MaterialIds |-> "M"] \* materials.json: id -> display name
all_materials_by_name == {MaterialsData[i] : i \in MaterialIds}

\* Every name a recipe or a component list of the model can mention
\* ("Q" is a name no catalog entry has).
CompNames == {"A", "M", "X", "Y", "Q"}

FusionDef(id, name, recipe) ==
    [id |-> id, name |-> name, type |-> "tier2", hasRecipe |-> TRUE, recipe |-> recipe,
     visibility |-> "visible"]

SeqsUpTo(S, n) == UNION {[1..k -> S] : k \in 0..n}

\* The catalogs explored: fusion X has any recipe up to MaxRecipeLen, fusion Y
\* one of a few recipes (flat, nested, empty, self-referential, or equal as a
\* multiset to a possible recipe of X).
YRecipes == {<<"A", "M">>, <<"X", "A">>, <<>>, <<"Y", "A">>}
Catalogs == {<<FusionDef("fx", "X", rx), FusionDef("fy", "Y", ry)>> :
                rx \in SeqsUpTo(CompNames, MaxRecipeLen), ry \in YRecipes}

\* FusionHelper.__init__: the two lookup tables (a later entry replaces an
\* earlier one with the same key).
RECURSIVE LastWith(_, _, _, _)
LastWith(defs, i, key, val) ==
    IF i = 0 THEN None
    ELSE IF defs[i][key] = val THEN defs[i] ELSE LastWith(defs, i - 1, key, val)

all_fusions_by_id(id) == LastWith(all_fusions, Len(all_fusions), "id", id)
all_fusions_by_name(name) == LastWith(all_fusions, Len(all_fusions), "name", name)

---------------------------------------------------------------------------
(* Counter: a multiset of names, as a function with 0 for absent names.    *)

CountIn(seq, x) == Cardinality({i \in 1..Len(seq) : seq[i] = x})
Counter(seq) == [n \in CompNames |-> CountIn(seq, n)]
EmptyCounter == [n \in CompNames |-> 0]
CounterPlus(c, d) == [n \in CompNames |-> c[n] + d[n]]
\* Counter.__isub__: subtract, keeping only positive counts
CounterMinus(c, d) == [n \in CompNames |-> IF c[n] - d[n] > 0 THEN c[n] - d[n] ELSE 0]
\* (mutant: any() where the code has all())
CounterLeq_any(c, d) == \E n \in CompNames : c[n] > 0 /\ c[n] <= d[n]
\* all(needed.get(item, 0) >= count for item, count in asset_counter.items())
CounterLeq(c, d) == \A n \in CompNames : c[n] <= d[n]

---------------------------------------------------------------------------
(* FusionHelper.deconstruct_plant                                          *)

ErrRecursion(name) == <<"Infinite recursion detected involving", name>>
ErrMissing(name)   == <<"Recipe is missing for fusion", name>>
ErrUnknown(name, comp) == <<"Recipe contains unknown component", name, comp>>

RECURSIVE deconstruct_plant(_, _)
RECURSIVE deconstruct_recipe(_, _, _, _)

\* the loop over fusion_def["recipe"], from entry i on
deconstruct_recipe(recipe, i, plant_name, path) ==
    IF i > Len(recipe) THEN [components |-> <<>>, errors |-> <<>>]
    ELSE
        LET component_name == recipe[i]
            rest == deconstruct_recipe(recipe, i + 1, plant_name, path)
            this ==
                IF component_name \in BasePlantNames
                    THEN [components |-> <<component_name>>, errors |-> <<>>]
                ELSE IF component_name \in all_materials_by_name
                    THEN [components |-> <<component_name>>, errors |-> <<>>]
                ELSE IF all_fusions_by_name(component_name) # None
                    THEN deconstruct_plant(all_fusions_by_name(component_name), path)
                ELSE [components |-> <<>>,
                      errors |-> <<ErrUnknown(plant_name, component_name)>>]
        IN [components |-> this.components \o rest.components,
            errors |-> this.errors \o rest.errors]

deconstruct_plant(plant_data, path) ==
    LET plant_id == plant_data.id
        plant_name == plant_data.name
    IN  IF plant_id \in path
            THEN [components |-> <<>>, errors |-> <<ErrRecursion(plant_name)>>]
        ELSE IF plant_data.type = "material" \/ plant_name \in all_materials_by_name
            THEN [components |-> <<plant_name>>, errors |-> <<>>]
        ELSE IF plant_data.type = "base_plant"
            THEN [components |-> <<plant_name>>, errors |-> <<>>]
        ELSE
            LET fusion_def == all_fusions_by_id(plant_id)
            IN  IF fusion_def = None \/ ~fusion_def.hasRecipe
                    THEN [components |-> <<>>, errors |-> <<ErrMissing(plant_name)>>]
                ELSE deconstruct_recipe(fusion_def.recipe, 1, plant_name,
                                        path \cup {plant_id})

Deconstruct(asset) == deconstruct_plant(asset, {})

---------------------------------------------------------------------------
(* FusionHelper.find_fusion_match                                          *)

RECURSIVE FirstMatch(_, _)
FirstMatch(i, input_recipe_counter) ==
    IF i > Len(all_fusions) THEN None
    ELSE
        LET recipe == IF all_fusions[i].hasRecipe THEN all_fusions[i].recipe ELSE <<>>
        IN  IF recipe # <<>> /\ Counter(recipe) = input_recipe_counter
                THEN all_fusions[i]
                ELSE FirstMatch(i + 1, input_recipe_counter)

\* (mutant: the recipe compared as a list, not as a Counter)
find_fusion_match_ordered(components) ==
    LET hits == {i \in 1..Len(all_fusions) :
                    all_fusions[i].recipe # <<>> /\ all_fusions[i].recipe = components}
    IN  IF hits = {} THEN None
        ELSE all_fusions[CHOOSE i \in hits : \A j \in hits : i <= j]

find_fusion_match(components) == FirstMatch(1, Counter(components))

---------------------------------------------------------------------------
(* FusionHelper.find_crafting_plan                                         *)

\* get_valid_crafting_components
IsValidComponent(asset) ==
    \/ asset.type = "material"
    \/ asset.type = "base_plant"
    \/ LET fusion_def == all_fusions_by_id(asset.id)
       IN  fusion_def # None /\ fusion_def.hasRecipe /\ fusion_def.recipe # <<>>

get_valid_crafting_components(assets_list) ==
    SelectSeq(assets_list, IsValidComponent)

\* sorted(effective_assets, key=len(deconstruct(x)[0]), reverse=True): stable,
\* so assets of equal key keep their order.
SortKey(asset) == Len(Deconstruct(asset).components)

RECURSIVE SortedDescFrom(_, _)
SortedDescFrom(assets, k) ==
    LET HasKey(a) == SortKey(a) = k
    IN  IF k < 0 THEN <<>>
        ELSE SelectSeq(assets, HasKey) \o SortedDescFrom(assets, k - 1)

MaxKey(assets) ==
    IF assets = <<>> THEN 0
    ELSE CHOOSE k \in {SortKey(assets[i]) : i \in 1..Len(assets)} :
            \A i \in 1..Len(assets) : SortKey(assets[i]) <= k

\* (mutant: the assets are taken in the order of the pool)
SortedAssets_unsorted(assets) == assets
SortedAssets(assets) == SortedDescFrom(assets, MaxKey(assets))

\* the loop over sorted_assets, from asset i on: the plan so far and what is
\* still needed
RECURSIVE CraftLoop(_, _, _, _)
CraftLoop(sorted_assets, i, needed, plan) ==
    IF i > Len(sorted_assets) THEN [plan |-> plan, needed |-> needed]
    ELSE
        LET asset == sorted_assets[i]
            d == Deconstruct(asset)
            asset_counter == Counter(d.components)
        IN  IF d.errors # <<>>
                THEN CraftLoop(sorted_assets, i + 1, needed, plan)
            ELSE IF CounterLeq(asset_counter, needed)
                THEN CraftLoop(sorted_assets, i + 1, CounterMinus(needed, asset_counter),
                               Append(plan, asset))
            ELSE CraftLoop(sorted_assets, i + 1, needed, plan)

\* (mutant: the assets of the fusion being evaluated are not excluded)
EffectiveAssets_unfiltered(user_assets, fusion_id_to_check) ==
    get_valid_crafting_components(user_assets)

\* the assets the search runs over
EffectiveAssets(user_assets, fusion_id_to_check) ==
    LET NotChecked(a) == a.id # fusion_id_to_check
        temp_assets == IF fusion_id_to_check # "" THEN SelectSeq(user_assets, NotChecked)
                       ELSE user_assets
    IN  get_valid_crafting_components(temp_assets)

Consumed(recipe_counter, user_assets, fusion_id_to_check) ==
    CraftLoop(SortedAssets(EffectiveAssets(user_assets, fusion_id_to_check)), 1,
              recipe_counter, <<>>)

find_crafting_plan(recipe_counter, user_assets, fusion_id_to_check) ==
    LET r == Consumed(recipe_counter, user_assets, fusion_id_to_check)
    IN  IF r.needed = EmptyCounter
            THEN [isNone |-> FALSE, plan |-> r.plan, needed |-> EmptyCounter]
            ELSE [isNone |-> TRUE, plan |-> <<>>, needed |-> r.needed]

---------------------------------------------------------------------------
(* The profile store (GardenHelper).  The primitives are functions from a  *)
(* store S = [balance, garden, inventory, fusions, storage] to the store   *)
(* after the call; an action assigns the result to the variables.          *)

Users == {"u1", "u2", "u3", "u4"}

GardenSize == 12        \* [None] * 12
ShedSize   == 8         \* [None] * 8
FreeSlots  == 6         \* slots 1..6 are unlocked for everybody

Max(a, b) == IF a >= b THEN a ELSE b
Min(a, b) == IF a <= b THEN a ELSE b

\* f"plot_{n}", the inventory item that unlocks slot n
PlotItem(n) ==
    CASE n = 7 -> "plot_7" [] n = 8 -> "plot_8" [] n = 9 -> "plot_9"
      [] n = 10 -> "plot_10" [] n = 11 -> "plot_11" [] OTHER -> "plot_12"
\* the items an inventory of the model can hold
ItemIds == MaterialIds \cup {PlotItem(FreeSlots + 1), "storage_shed", "shed_upgrade"}

\* the progress of a seedling is kept in units of 1/ProgressUnits percent
ProgressUnits == 24
Full == 100 * ProgressUnits

\* the dict plant_seedling puts into a plot
Seedling(seedling_id) ==
    [id |-> seedling_id, type |-> "seedling", progress |-> 0, name |-> seedling_id]

\* isinstance(slot, dict) and slot.get("type") != "seedling"
IsMature(slot) == slot # None /\ slot.type # "seedling"
IsSeedling(slot) == slot # None /\ slot.type = "seedling"

\* get_user_data: the profile a user gets on first access
EmptyGarden == [i \in 1..GardenSize |-> None]
EmptyInventory == [i \in ItemIds |-> 0]
EmptyShed == [i \in 1..ShedSize |-> None]

Store == [balance |-> balance, garden |-> garden, inventory |-> inventory,
          fusions |-> fusions, storage |-> storage, mastery |-> mastery,
          time_mastery |-> time_mastery, last_daily |-> last_daily]

SetStore(S) ==
    /\ balance' = S.balance
    /\ garden' = S.garden
    /\ inventory' = S.inventory
    /\ fusions' = S.fusions
    /\ storage' = S.storage
    /\ mastery' = S.mastery
    /\ time_mastery' = S.time_mastery
    /\ last_daily' = S.last_daily

is_slot_unlocked(S, user_id, slot_1_indexed) ==
    \/ 1 <= slot_1_indexed /\ slot_1_indexed <= FreeSlots
    \/ /\ PlotItem(slot_1_indexed) \in ItemIds
       /\ slot_1_indexed > FreeSlots /\ slot_1_indexed <= GardenSize
       /\ S.inventory[user_id][PlotItem(slot_1_indexed)] > 0

set_balance(S, user_id, amount) ==
    [S EXCEPT !.balance[user_id] = Max(0, amount)]

add_balance(S, user_id, amount) ==
    IF amount > 0 THEN [S EXCEPT !.balance[user_id] = @ + amount] ELSE S

\* (mutant: the subtraction is not clamped)
remove_balance_unclamped(S, user_id, amount) ==
    IF amount > 0 THEN [S EXCEPT !.balance[user_id] = @ - amount] ELSE S

remove_balance(S, user_id, amount) ==
    IF amount > 0 THEN [S EXCEPT !.balance[user_id] = Max(0, @ - amount)] ELSE S

\* (mutant: the new progress is not capped)
update_seedling_progress_uncapped(S, user_id, plot_index_0based, progress_increase) ==
    IF /\ 0 <= plot_index_0based /\ plot_index_0based < GardenSize
       /\ IsSeedling(S.garden[user_id][plot_index_0based + 1])
    THEN [S EXCEPT !.garden[user_id][plot_index_0based + 1].progress =
                        @ + progress_increase]
    ELSE S

update_seedling_progress(S, user_id, plot_index_0based, progress_increase) ==
    IF /\ 0 <= plot_index_0based /\ plot_index_0based < GardenSize
       /\ IsSeedling(S.garden[user_id][plot_index_0based + 1])
    THEN [S EXCEPT !.garden[user_id][plot_index_0based + 1].progress =
                        Min(@ + progress_increase, Full)]
    ELSE S

\* list[i] of Python: a negative index counts from the end of the list, and
\* an index outside the list raises IndexError
\* x in list
InSeq(x, list) == \E k \in 1..Len(list) : list[k] = x

PyIndex(i, length) == IF i < 0 THEN i + length ELSE i
InList(i, length) == 0 <= PyIndex(i, length) /\ PyIndex(i, length) < length

plant_seedling(S, user_id, plot_index_0based, seedling_id) ==
    IF InList(plot_index_0based, GardenSize)
    THEN [S EXCEPT !.garden[user_id][PyIndex(plot_index_0based, GardenSize) + 1] =
                        Seedling(seedling_id)]
    ELSE S

set_garden_plot(S, user_id, plot_index_0based, plant_data) ==
    IF 0 <= plot_index_0based /\ plot_index_0based < GardenSize
    THEN [S EXCEPT !.garden[user_id][plot_index_0based + 1] = plant_data]
    ELSE S

add_item_to_inventory(S, user_id, item_id, quantity) ==
    [S EXCEPT !.inventory[user_id][item_id] = @ + Max(0, quantity)]

remove_item_from_inventory(S, user_id, item_id, quantity) ==
    IF S.inventory[user_id][item_id] < quantity THEN S
    ELSE [S EXCEPT !.inventory[user_id][item_id] = @ - Max(0, quantity)]

add_fusion_discovery(S, user_id, fusion_id) ==
    IF InSeq(fusion_id, S.fusions[user_id]) THEN S
    ELSE [S EXCEPT !.fusions[user_id] = Append(@, fusion_id)]

increment_mastery(S, user_id, amount) ==
    [S EXCEPT !.mastery[user_id] = @ + amount]

increment_time_mastery(S, user_id, amount) ==
    [S EXCEPT !.time_mastery[user_id] = @ + amount]

\* A call of a primitive, as a handler has it in its program text.
OpAddBalance(u, amount)    == [op |-> "add_balance", user_id |-> u, amount |-> amount]
set_last_daily(S, user_id, date_str) ==
    [S EXCEPT !.last_daily[user_id] = date_str]

OpSetLastDaily(u, date_str) == [op |-> "set_last_daily", user_id |-> u, date_str |-> date_str]
OpRemoveBalance(u, amount) == [op |-> "remove_balance", user_id |-> u, amount |-> amount]
OpSetPlot(u, idx, plant)   ==
    [op |-> "set_garden_plot", user_id |-> u, plot_index_0based |-> idx, plant_data |-> plant]
OpPlantSeedling(u, idx, sid) ==
    [op |-> "plant_seedling", user_id |-> u, plot_index_0based |-> idx, seedling_id |-> sid]
OpAddItem(u, item, q)      ==
    [op |-> "add_item", user_id |-> u, item_id |-> item, quantity |-> q]
OpRemoveItem(u, item, q)   ==
    [op |-> "remove_item", user_id |-> u, item_id |-> item, quantity |-> q]
OpAddDiscovery(u, fid)     == [op |-> "add_fusion_discovery", user_id |-> u, fusion_id |-> fid]
OpIncrementMastery(u, amount) ==
    [op |-> "increment_mastery", user_id |-> u, amount |-> amount]
OpIncrementTimeMastery(u, amount) ==
    [op |-> "increment_time_mastery", user_id |-> u, amount |-> amount]

\* the store after the call o
Apply(S, o) ==
    CASE o.op = "add_balance" -> add_balance(S, o.user_id, o.amount)
      [] o.op = "remove_balance" -> remove_balance(S, o.user_id, o.amount)
      [] o.op = "set_garden_plot" ->
            set_garden_plot(S, o.user_id, o.plot_index_0based, o.plant_data)
      [] o.op = "plant_seedling" ->
            plant_seedling(S, o.user_id, o.plot_index_0based, o.seedling_id)
      [] o.op = "add_item" -> add_item_to_inventory(S, o.user_id, o.item_id, o.quantity)
      [] o.op = "remove_item" ->
            remove_item_from_inventory(S, o.user_id, o.item_id, o.quantity)
      [] o.op = "add_fusion_discovery" -> add_fusion_discovery(S, o.user_id, o.fusion_id)
      [] o.op = "increment_mastery" -> increment_mastery(S, o.user_id, o.amount)
      [] o.op = "increment_time_mastery" -> increment_time_mastery(S, o.user_id, o.amount)
      [] o.op = "set_last_daily" -> set_last_daily(S, o.user_id, o.date_str)

\* Whether the call o reaches `await self._save_user_data(user_id)`, the one
\* place where a primitive suspends its caller.
Suspends(S, o) ==
    CASE o.op \in {"add_balance", "remove_balance"} -> o.amount > 0
      [] o.op = "remove_item" -> S.inventory[o.user_id][o.item_id] >= o.quantity
      [] o.op = "add_fusion_discovery" -> ~InSeq(o.fusion_id, S.fusions[o.user_id])
      [] OTHER -> TRUE

\* A handler runs its calls up to and including the first that suspends it.
RECURSIVE RunOps(_, _)
RunOps(S, ops) ==
    IF ops = <<>> THEN [store |-> S, rest |-> <<>>]
    ELSE IF Suspends(S, Head(ops))
         THEN [store |-> Apply(S, Head(ops)), rest |-> Tail(ops)]
         ELSE RunOps(Apply(S, Head(ops)), Tail(ops))

\* the ascending sequence of a set of integers (iteration order of a small set)
RECURSIVE SortedSeq(_)
SortedSeq(set) ==
    IF set = {} THEN <<>>
    ELSE LET m == CHOOSE x \in set : \A y \in set : x <= y
         IN  <<m>> \o SortedSeq(set \ {m})

\* the 0-based indices of the free, unlocked plots of a garden list
FreePlotIndices(S, user_id, garden_list) ==
    {i \in 0..(GardenSize - 1) :
        garden_list[i + 1] = None /\ is_slot_unlocked(S, user_id, i + 1)}

\* What a primitive that returns (success, message) gives back: the store
\* after the call, the pair it returns or the exception it raises, and
\* whether it reached its save.
Returned(S, success, message, saved) ==
    [store |-> S, success |-> success, message |-> message, raised |-> "none",
     saved |-> saved]
Raised(S, exception, saved) ==
    [store |-> S, success |-> FALSE, message |-> "", raised |-> exception,
     saved |-> saved]

user_has_storage_shed(S, user_id) == S.inventory[user_id]["storage_shed"] > 0

get_storage_capacity(S, user_id) ==
    IF ~user_has_storage_shed(S, user_id) THEN 0
    ELSE IF S.inventory[user_id]["shed_upgrade"] > 0 THEN 4 + 4
    ELSE 4

\* sum(1 for s in shed_slots[:capacity] if s is not None)
OccupiedSlots(S, user_id, capacity) ==
    Cardinality({i \in 1..Min(capacity, ShedSize) : S.storage[user_id][i] # None})

\* (mutant: the capacity is not checked)
store_plant_unbounded(S, user_id, plot_index_0based) ==
    LET empties == {i \in 1..ShedSize : S.storage[user_id][i] = None}
        first == IF empties = {} THEN 1 ELSE CHOOSE i \in empties : \A j \in empties : i <= j
    IN  IF ~InList(plot_index_0based, GardenSize) THEN Raised(S, "IndexError", FALSE)
        ELSE Returned([S EXCEPT !.storage[user_id][first] =
                                    S.garden[user_id][PyIndex(plot_index_0based, GardenSize) + 1],
                                !.garden[user_id][PyIndex(plot_index_0based, GardenSize) + 1] =
                                    None],
                      TRUE, "stored", TRUE)

store_plant(S, user_id, plot_index_0based) ==
    LET capacity == get_storage_capacity(S, user_id)
        shed_slots == S.storage[user_id]
        plot == PyIndex(plot_index_0based, GardenSize) + 1
        plant_to_move == S.garden[user_id][plot]
        empties == {i \in 1..ShedSize : shed_slots[i] = None}
        first_empty_slot ==
            IF empties = {} THEN -1
            ELSE (CHOOSE i \in empties : \A j \in empties : i <= j) - 1
        S1 == [S EXCEPT !.storage[user_id][first_empty_slot + 1] = plant_to_move,
                        !.garden[user_id][plot] = None]
    IN  IF OccupiedSlots(S, user_id, capacity) >= capacity
            THEN Returned(S, FALSE, "Insufficient storage shed capacity.", FALSE)
        ELSE IF ~InList(plot_index_0based, GardenSize) THEN Raised(S, "IndexError", FALSE)
        ELSE IF first_empty_slot = -1 \/ first_empty_slot >= capacity
            THEN Returned(S, FALSE, "Internal Error: Could not find an empty storage slot.",
                          FALSE)
        \* plant_to_move.get('name', 'Plant') on None, after the save
        ELSE IF plant_to_move = None THEN Raised(S1, "AttributeError", TRUE)
        ELSE Returned(S1, TRUE, "stored", TRUE)

unstore_plant(S, user_id, storage_index_0based) ==
    LET plots == FreePlotIndices(S, user_id, S.garden[user_id])
        slot == PyIndex(storage_index_0based, ShedSize) + 1
        plant_to_move == S.storage[user_id][slot]
        target_plot_idx == CHOOSE i \in plots : \A j \in plots : i <= j
        S1 == [S EXCEPT !.garden[user_id][target_plot_idx + 1] = plant_to_move,
                        !.storage[user_id][slot] = None]
    IN  IF plots = {} THEN Returned(S, FALSE, "Insufficient garden capacity.", FALSE)
        ELSE IF ~InList(storage_index_0based, ShedSize) THEN Raised(S, "IndexError", FALSE)
        ELSE IF plant_to_move = None THEN Raised(S1, "AttributeError", TRUE)
        ELSE Returned(S1, TRUE, "unstored", TRUE)

\* user_data["garden"] = new_garden_list
set_full_garden(S, user_id, new_garden_list) ==
    [S EXCEPT !.garden[user_id] = new_garden_list]

---------------------------------------------------------------------------
(* The lock table (LockHelper).                                            *)

get_user_lock(L, user_id) ==
    IF \E lock \in L : lock.user_id = user_id
    THEN CHOOSE lock \in L : lock.user_id = user_id
    ELSE None

add_lock(L, user_id, lock_type, message) ==
    IF get_user_lock(L, user_id) # None THEN L
    ELSE L \cup {[user_id |-> user_id, type |-> lock_type, message |-> message]}

remove_lock_for_user(L, user_id) == {lock \in L : lock.user_id # user_id}

\* (mutant: the check lets everybody through)
is_not_locked_off(user_id) == TRUE

\* the check in front of every lock-guarded command
is_not_locked(user_id) == get_user_lock(locks, user_id) = None

---------------------------------------------------------------------------
(* The trade protocol (TradeHelper).                                       *)

TradeTimeout == 60      \* await asyncio.sleep(60)
FuseTimeout  == 30      \* wait_for(..., timeout=30.0)
IdModulus    == 10000   \* int(time.time()) % 10000

\* f"TR{int(time.time()) % 10000:04d}" and f"TI{...}"
TradeId(prefix) == <<prefix, now % IdModulus>>

NoTrades == [id \in {} |-> None]

\* propose_trade: pending_trades[trade_id] = trade_details, then both locks
ProposedTrades(P, trade_details) ==
    [id \in DOMAIN P \cup {trade_details.id} |->
        IF id = trade_details.id THEN trade_details ELSE P[id]]

ProposedLocks(L, trade_details) ==
    LET sender == trade_details.sender_id
        recipient == trade_details.recipient_id
    IN  add_lock(add_lock(L, sender, "trade",
                          <<"awaiting", recipient, trade_details.id>>),
                 recipient, "trade", <<"respond", sender, trade_details.id>>)

\* resolve_trade: pending_trades.pop(trade_id, None), then both unlocks
ResolvedTrades(P, trade_id) == [id \in DOMAIN P \ {trade_id} |-> P[id]]

ResolvedLocks(P, L, trade_id) ==
    IF trade_id \in DOMAIN P
    THEN remove_lock_for_user(remove_lock_for_user(L, P[trade_id].sender_id),
                              P[trade_id].recipient_id)
    ELSE L

\* (mutant: the trade is read with get, not popped)
resolve_trade_get(trade_id) ==
    /\ pending_trades' = pending_trades
    /\ locks' = ResolvedLocks(pending_trades, locks, trade_id)

resolve_trade(trade_id) ==
    /\ pending_trades' = ResolvedTrades(pending_trades, trade_id)
    /\ locks' = ResolvedLocks(pending_trades, locks, trade_id)

\* the plant moves of a trade: every plant goes to the first plot that is
\* free in the sender's garden as the moves before it leave it
RECURSIVE PlantMoves(_, _, _, _)
PlantMoves(S, trade_data, k, temp_sender_garden) ==
    LET plants_info == trade_data.plants_sender_receives_info
    IN  IF k > Len(plants_info) THEN <<>>
        ELSE LET r_slot_index == plants_info[k].r_slot_index
                 plant_to_move == S.garden[trade_data.recipient_id][r_slot_index + 1]
                 free == FreePlotIndices(S, trade_data.sender_id, temp_sender_garden)
                 s_slot_index == CHOOSE i \in free : \A j \in free : i <= j
             IN  <<OpSetPlot(trade_data.recipient_id, r_slot_index, None),
                   OpSetPlot(trade_data.sender_id, s_slot_index, plant_to_move)>>
                 \o PlantMoves(S, trade_data, k + 1,
                               [temp_sender_garden EXCEPT ![s_slot_index + 1] = plant_to_move])

\* accept_command's loop over changes["balance_updates"]
BalanceUpdateOp(update) ==
    IF update.amount > 0 THEN OpAddBalance(update.user_id, update.amount)
    ELSE OpRemoveBalance(update.user_id, 0 - update.amount)

BalanceUpdates(trade_data, amount) ==
    <<BalanceUpdateOp([user_id |-> trade_data.sender_id, amount |-> 0 - amount]),
      BalanceUpdateOp([user_id |-> trade_data.recipient_id, amount |-> amount])>>

\* (mutant: the plots are not compared with their snapshots)
PlotChanged_unchecked(S, trade_data, plant_snapshot) == FALSE

\* the snapshot of a plot does not match what the plot holds now
PlotChanged(S, trade_data, plant_snapshot) ==
    LET current_plant_in_slot ==
            S.garden[trade_data.recipient_id][plant_snapshot.r_slot_index + 1]
    IN  \/ current_plant_in_slot = None
        \/ current_plant_in_slot.id # plant_snapshot.plant_data.id

Failed == [success |-> FALSE, ops |-> <<>>]

execute_plant_trade(trade_data, S) ==
    LET money_to_give == trade_data.money_sender_gives
        plants_info == trade_data.plants_sender_receives_info
        sender_garden == S.garden[trade_data.sender_id]
        free_sender_plots ==
            Cardinality(FreePlotIndices(S, trade_data.sender_id, sender_garden))
    IN  IF S.balance[trade_data.sender_id] < money_to_give THEN Failed
        ELSE IF free_sender_plots < Len(plants_info) THEN Failed
        ELSE IF \E k \in 1..Len(plants_info) : PlotChanged(S, trade_data, plants_info[k])
             THEN Failed
        ELSE [success |-> TRUE,
              ops |-> BalanceUpdates(trade_data, money_to_give)
                      \o PlantMoves(S, trade_data, 1, sender_garden)]

execute_item_trade(trade_data, S) ==
    LET sun_to_give == trade_data.sun_sender_offers
        items_info == trade_data.items_info_list
        ItemTransfer(item) ==
            <<OpRemoveItem(trade_data.recipient_id, item.id, item.count),
              OpAddItem(trade_data.sender_id, item.id, item.count)>>
        Transfers[k \in 0..Len(items_info)] ==
            IF k = 0 THEN <<>> ELSE Transfers[k - 1] \o ItemTransfer(items_info[k])
    IN  IF S.balance[trade_data.sender_id] < sun_to_give THEN Failed
        ELSE IF \E k \in 1..Len(items_info) :
                    S.inventory[trade_data.recipient_id][items_info[k].id]
                        < items_info[k].count
             THEN Failed
        ELSE [success |-> TRUE,
              ops |-> BalanceUpdates(trade_data, sun_to_give) \o Transfers[Len(items_info)]]

---------------------------------------------------------------------------
(* Sales (SalesHelper).                                                    *)

\* sales_price.json as DataHelper writes it when the file is missing
SALES_PRICES ==
    [t \in {"base_plant", "tier2", "tier3", "tier4", "tier5"} |->
        CASE t = "base_plant" -> 1000 [] t = "tier2" -> 4000 [] t = "tier3" -> 9000
          [] t = "tier4" -> 16000 [] OTHER -> 25000]

get_sale_price(plant_type) ==
    IF plant_type \in DOMAIN SALES_PRICES THEN SALES_PRICES[plant_type] ELSE 0

\* the two tiers that are sold for mastery: "tier∞" and "tier-∞"
TierInf == "tier_inf"
TierNegInf == "tier_neg_inf"

\* plant_to_sell.get("type", "base_plant"); a plant without the key has type "None"
PlantType(plant) == IF plant.type = "None" THEN "base_plant" ELSE plant.type

\* The pairs (sale_price, mastery), with mastery below 40, for which the double
\* sale_price * (1 + (0.1 * mastery)) lies just below the integer
\* sale_price * (10 + mastery) / 10, so that int() gives one less; no other
\* price of SALES_PRICES has such a pair.
RoundsBelow == {<<25000, 13>>, <<25000, 31>>, <<25000, 36>>}

\* (mutant: the mastery bonus is left out)
final_sale_price_flat(sale_price, sun_mastery) == sale_price

\* int(sale_price * sun_mastery_bonus), sun_mastery_bonus = 1 + (0.1 * mastery)
final_sale_price(sale_price, sun_mastery) ==
    (sale_price * (10 + sun_mastery)) \div 10
        - (IF <<sale_price, sun_mastery>> \in RoundsBelow THEN 1 ELSE 0)

\* what one pass of the loop of process_sales does with a slot
SaleKind(S, user_id, slot_num_1based) ==
    LET plot_idx_0based == slot_num_1based - 1
    IN  IF ~(0 <= plot_idx_0based /\ plot_idx_0based < GardenSize) THEN "invalid"
        ELSE LET plant_to_sell == S.garden[user_id][slot_num_1based]
             IN  IF plant_to_sell = None \/ plant_to_sell.type = "seedling" THEN "not_sellable"
                 ELSE IF PlantType(plant_to_sell) = TierInf THEN "mastery"
                 ELSE IF PlantType(plant_to_sell) = TierNegInf THEN "time_mastery"
                 ELSE IF get_sale_price(PlantType(plant_to_sell)) <= 0 THEN "no_value"
                 ELSE "sold"

\* results before the loop
NoSales ==
    [total_earnings |-> 0, sold_plants_details |-> <<>>, error_messages |-> <<>>,
     mastery_gained |-> 0, time_mastery_gained |-> 0, plots_to_clear |-> <<>>]

\* results after one pass of the loop that did not end with `continue` early
SalePass(S, user_id, slot_num_1based, kind, results) ==
    LET sale_price == get_sale_price(PlantType(S.garden[user_id][slot_num_1based]))
        sold == [results EXCEPT !.sold_plants_details = Append(@, slot_num_1based),
                                !.plots_to_clear = Append(@, slot_num_1based - 1)]
    IN  CASE kind = "mastery" -> [sold EXCEPT !.mastery_gained = @ + 1]
          [] kind = "time_mastery" -> [sold EXCEPT !.time_mastery_gained = @ + 1]
          [] OTHER -> [sold EXCEPT !.total_earnings =
                            @ + final_sale_price(sale_price, S.mastery[user_id])]

\* (mutant: the loop ends at the first slot that gets an error message)
RECURSIVE SalesLoop_aborting(_, _, _, _)
SalesLoop_aborting(S, user_id, slots, results) ==
    IF slots = <<>> THEN results
    ELSE LET kind == SaleKind(S, user_id, Head(slots))
         IN  IF kind \in {"invalid", "not_sellable", "no_value"}
             THEN [results EXCEPT !.error_messages = Append(@, <<Head(slots), kind>>)]
             ELSE SalesLoop_aborting(S, user_id, Tail(slots),
                                     SalePass(S, user_id, Head(slots), kind, results))

\* the loop of process_sales over the slots still to visit
RECURSIVE SalesLoop(_, _, _, _)
SalesLoop(S, user_id, slots, results) ==
    IF slots = <<>> THEN results
    ELSE LET kind == SaleKind(S, user_id, Head(slots))
         IN  IF kind \in {"invalid", "not_sellable", "no_value"}
             THEN SalesLoop(S, user_id, Tail(slots),
                            [results EXCEPT !.error_messages =
                                                Append(@, <<Head(slots), kind>>)])
             ELSE SalesLoop(S, user_id, Tail(slots),
                            SalePass(S, user_id, Head(slots), kind, results))

\* process_sales: the loop runs over set(slots_to_sell_from)
process_sales(S, user_id, slots_to_sell_from) ==
    SalesLoop(S, user_id, SortedSeq(slots_to_sell_from), NoSales)

---------------------------------------------------------------------------
(* The commands.  A command that is refused only sends a message and is a  *)
(* stuttering step; its refusals are the negation of the guards below.     *)

MaxClock   == 0         \* trade, tradeitem and fuse are issued in seconds 0..MaxClock
MaxWaiting == 2         \* handlers waiting for a delivery, a timeout or a reply
MaxSaving  == 2         \* handlers suspended in a save
MaxSlotArg == 2         \* plot numbers given to commands: 1..MaxSlotArg
MaxItemArgs == 1        \* item ids given to tradeitem: 1..MaxItemArgs
MaxFuseArgs == 2        \* arguments given to fuse: 2..MaxFuseArgs
MaxSun     == 1000      \* sell and fuse are issued while no more sun than this is in play

SlotArgs == 1..MaxSlotArg

\* who proposes to whom: u1 and u3 both turn to u2
TradePairs == {<<"u1", "u2">>, <<"u3", "u2">>}
TradeAmounts == {0, 1000}

WaitingKinds == {"trade_dm", "trade_sleep", "fuse_wait"}
Waiting == {t \in tasks : t.kind \in WaitingKinds}
Saving  == {t \in tasks : t.kind \notin WaitingKinds}
CanWait == Cardinality(Waiting) < MaxWaiting
CanSave == Cardinality(Saving) < MaxSaving

RECURSIVE SumOf(_, _)
SumOf(f, set) ==
    IF set = {} THEN 0
    ELSE LET x == CHOOSE y \in set : TRUE IN f[x] + SumOf(f, set \ {x})

\* the commands that create sun are issued while little sun is in play
SunIsScarce == SumOf(balance, Users) <= MaxSun

\* No two handlers are suspended at the same place with the same locals.
NoTwin(new) == new \cap tasks = {}

\* The handler h is left suspended with the calls `rest` still to make.
Suspended(h, rest) == IF rest = <<>> THEN {} ELSE {[h EXCEPT !.ops = rest]}

\* the handler t resumes and runs up to its next suspension
Resume(t) ==
    LET r == RunOps(Store, t.ops)
    IN  /\ NoTwin(Suspended(t, r.rest))
        /\ SetStore(r.store)
        /\ tasks' = (tasks \ {t}) \cup Suspended(t, r.rest)

\* trade_command, up to `await recipient.send(...)`
TradeCommand(sender, recipient, money_to_give, want_slots) ==
    LET want_slots_0_indexed == SortedSeq({s - 1 : s \in want_slots})
        plants_to_receive_info ==
            [k \in 1..Len(want_slots_0_indexed) |->
                [r_slot_index |-> want_slots_0_indexed[k],
                 plant_data |-> garden[recipient][want_slots_0_indexed[k] + 1]]]
        trade_details ==
            [id |-> TradeId("TR"), sender_id |-> sender, recipient_id |-> recipient,
             trade_type |-> "plant", money_sender_gives |-> money_to_give,
             plants_sender_receives_info |-> plants_to_receive_info]
    IN  /\ now <= MaxClock /\ CanWait
        /\ is_not_locked(sender)
        /\ sender # recipient
        /\ get_user_lock(locks, recipient) = None
        /\ money_to_give >= 0 /\ want_slots # {}
        /\ balance[sender] >= money_to_give
        /\ \A s \in want_slots :
            /\ 0 <= s - 1 /\ s - 1 < GardenSize
            /\ is_slot_unlocked(Store, recipient, s)
            /\ IsMature(garden[recipient][s])
        /\ Cardinality(FreePlotIndices(Store, sender, garden[sender]))
                >= Len(plants_to_receive_info)
        /\ pending_trades' = ProposedTrades(pending_trades, trade_details)
        /\ locks' = ProposedLocks(locks, trade_details)
        /\ \A t \in tasks : t.kind \in {"trade_dm", "trade_sleep"} =>
                ~(t.trade_id = trade_details.id /\ t.sender_id = sender
                  /\ t.recipient_id = recipient)
        /\ tasks' = tasks \cup {[kind |-> "trade_dm", trade_id |-> trade_details.id,
                                 sender_id |-> sender, recipient_id |-> recipient]}
        /\ UNCHANGED <<profileVars, now, flags, tick, all_fusions, call>>

\* the positions at which a value occurs for the first time (the order in
\* which a Counter filled from the sequence lists its keys)
FirstOccurrences(seq) ==
    SortedSeq({k \in 1..Len(seq) : \A j \in 1..(k - 1) : seq[j] # seq[k]})

\* tradeitem_command, up to `await recipient.send(...)`
TradeItemCommand(sender, recipient, sun_offered, item_ids) ==
    LET requested == {item_ids[k] : k \in 1..Len(item_ids)}
        first == FirstOccurrences(item_ids)
        validated_items_info ==
            [k \in 1..Len(first) |->
                [id |-> item_ids[first[k]], name |-> MaterialsData[item_ids[first[k]]],
                 count |-> CountIn(item_ids, item_ids[first[k]])]]
        trade_details ==
            [id |-> TradeId("TI"), sender_id |-> sender, recipient_id |-> recipient,
             trade_type |-> "item", sun_sender_offers |-> sun_offered,
             items_info_list |-> validated_items_info]
    IN  /\ now <= MaxClock /\ CanWait
        /\ is_not_locked(sender)
        /\ sender # recipient
        /\ item_ids # <<>>
        /\ get_user_lock(locks, recipient) = None
        /\ sun_offered >= 0
        /\ balance[sender] >= sun_offered
        /\ \A k \in 1..Len(item_ids) : item_ids[k] \in MaterialIds
        /\ \A i \in requested : inventory[recipient][i] >= CountIn(item_ids, i)
        /\ pending_trades' = ProposedTrades(pending_trades, trade_details)
        /\ locks' = ProposedLocks(locks, trade_details)
        /\ \A t \in tasks : t.kind \in {"trade_dm", "trade_sleep"} =>
                ~(t.trade_id = trade_details.id /\ t.sender_id = sender
                  /\ t.recipient_id = recipient)
        /\ tasks' = tasks \cup {[kind |-> "trade_dm", trade_id |-> trade_details.id,
                                 sender_id |-> sender, recipient_id |-> recipient]}
        /\ UNCHANGED <<profileVars, now, flags, tick, all_fusions, call>>

\* the proposal was delivered: on to `await asyncio.sleep(60)`
TradeDmSent(t) ==
    /\ t.kind = "trade_dm"
    /\ tasks' = (tasks \ {t}) \cup
                {[kind |-> "trade_sleep", trade_id |-> t.trade_id, sender_id |-> t.sender_id,
                  recipient_id |-> t.recipient_id, wake |-> now + TradeTimeout]}
    /\ UNCHANGED <<profileVars, locks, pending_trades, now, flags, tick, all_fusions, call>>

\* `except discord.Forbidden`: the recipient takes no direct messages
TradeDmForbidden(t) ==
    /\ t.kind = "trade_dm"
    /\ resolve_trade(t.trade_id)
    /\ tasks' = tasks \ {t}
    /\ UNCHANGED <<profileVars, now, flags, tick, all_fusions, call>>

\* the 60 seconds are over: `if self.trade_helper.resolve_trade(trade_id)`
TradeExpire(t) ==
    /\ t.kind = "trade_sleep" /\ t.wake <= now
    /\ resolve_trade(t.trade_id)
    /\ tasks' = tasks \ {t}
    /\ UNCHANGED <<profileVars, now, flags, tick, all_fusions, call>>

AcceptHandler(user, trade) ==
    [kind |-> "accept", user_id |-> user, trade_id |-> trade.id,
     sender_id |-> trade.sender_id, recipient_id |-> trade.recipient_id, ops |-> <<>>]

\* accept_command, up to the first transfer that suspends it
AcceptCommand(user, trade_id) ==
    /\ CanSave
    /\ trade_id \in DOMAIN pending_trades
    /\ pending_trades[trade_id].recipient_id = user
    /\ resolve_trade(trade_id)
    /\ LET trade == pending_trades[trade_id]
           result == IF trade.trade_type = "plant"
                     THEN execute_plant_trade(trade, Store)
                     ELSE execute_item_trade(trade, Store)
           r == RunOps(Store, result.ops)
       IN  /\ SetStore(r.store)
           /\ NoTwin(Suspended(AcceptHandler(user, trade), r.rest))
           /\ tasks' = tasks \cup Suspended(AcceptHandler(user, trade), r.rest)
    /\ UNCHANGED <<mastery, time_mastery, last_daily, now, flags, tick, all_fusions, call>>

\* accept_command resumes after a transfer was saved
AcceptStep(t) ==
    /\ t.kind = "accept"
    /\ Resume(t)
    /\ UNCHANGED <<mastery, time_mastery, last_daily, locks, pending_trades, now, flags, tick, all_fusions, call>>

\* decline_command
DeclineCommand(user, trade_id) ==
    /\ trade_id \in DOMAIN pending_trades
    /\ \/ pending_trades[trade_id].sender_id = user
       \/ pending_trades[trade_id].recipient_id = user
    /\ resolve_trade(trade_id)
    /\ UNCHANGED <<profileVars, tasks, now, flags, tick, all_fusions, call>>

\* what the arguments of fuse can be: plot numbers and material ids
FuseTokens == {"1", "2", "m"}
IsDigit(arg) == arg \in {"1", "2"}
PlotNum(arg) == IF arg = "1" THEN 1 ELSE 2

\* the calls a confirmed fusion makes
FuseOps(user, item_args, plot_args, fusion_result_data, is_new) ==
    LET first_items == FirstOccurrences(item_args)
        removals == [k \in 1..Len(first_items) |->
                        OpRemoveItem(user, item_args[first_items[k]],
                                     CountIn(item_args, item_args[first_items[k]]))]
        clears == [k \in 1..Len(plot_args) |-> OpSetPlot(user, PlotNum(plot_args[k]) - 1, None)]
        new_plant == [id |-> fusion_result_data.id, name |-> fusion_result_data.name,
                      type |-> fusion_result_data.type]
        output_slot == PlotNum(plot_args[1])
        bonus == get_sale_price(new_plant.type) \div 2
    IN  removals \o clears \o <<OpSetPlot(user, output_slot - 1, new_plant)>>
        \o (IF is_new
            THEN <<OpAddDiscovery(user, fusion_result_data.id)>>
                 \o (IF bonus > 0 THEN <<OpAddBalance(user, bonus)>> ELSE <<>>)
            ELSE <<>>)

\* the components fuse hands to find_fusion_match
RECURSIVE PlotComponents(_, _)
PlotComponents(user, plot_args) ==
    IF plot_args = <<>> THEN [components |-> <<>>, errors |-> <<>>]
    ELSE LET d == Deconstruct(garden[user][PlotNum(Head(plot_args))])
             r == PlotComponents(user, Tail(plot_args))
         IN  [components |-> d.components \o r.components, errors |-> d.errors \o r.errors]

\* (mutant: `if errors` where the code has `if deconstruction_errors`; errors
\* is what the last deconstruct_plant of the loop returned)
deconstruction_errors_last(user, plot_args) ==
    Deconstruct(garden[user][PlotNum(plot_args[Len(plot_args)])]).errors

\* deconstruction_errors after the loop over validated_plots_info
deconstruction_errors(user, plot_args) == PlotComponents(user, plot_args).errors

\* the checks of fuse_command on its arguments: no "Fusion Input Error"
FuseInputValid(user, args) ==
    LET plot_args == SelectSeq(args, IsDigit)
        item_args == SelectSeq(args, LAMBDA a : ~IsDigit(a))
    IN  /\ Len(args) >= 2
        /\ \A j, k \in 1..Len(plot_args) : j # k => plot_args[j] # plot_args[k]
        /\ \A k \in 1..Len(plot_args) :
            /\ is_slot_unlocked(Store, user, PlotNum(plot_args[k]))
            /\ IsMature(garden[user][PlotNum(plot_args[k])])
        /\ \A k \in 1..Len(item_args) :
            /\ item_args[k] \in MaterialIds
            /\ inventory[user][item_args[k]] >= CountIn(item_args, item_args[k])
        /\ plot_args # <<>>

\* fuse_command when a selected plant does not deconstruct: the errors are sent
FuseDeconstructionError(user, args) ==
    LET plot_args == SelectSeq(args, IsDigit)
    IN  /\ is_not_locked(user)
        /\ FuseInputValid(user, args)
        /\ deconstruction_errors(user, plot_args) # <<>>
        /\ call' = [op |-> "fuse", user_id |-> user, args |-> args,
                    sent |-> "Fusion Deconstruction Error",
                    errors |-> deconstruction_errors(user, plot_args)]
        /\ UNCHANGED <<profileVars, tradeVars, flags, tick, all_fusions>>

\* fuse_command, up to the wait for the confirmation
FuseCommand(user, args) ==
    LET plot_args == SelectSeq(args, IsDigit)
        item_args == SelectSeq(args, LAMBDA a : ~IsDigit(a))
        deconstructed == PlotComponents(user, plot_args)
        base_components ==
            deconstructed.components \o [k \in 1..Len(item_args) |-> MaterialsData[item_args[k]]]
        fusion_result_data == find_fusion_match(base_components)
        is_new == /\ ~InSeq(fusion_result_data.id, fusions[user])
                  /\ fusion_result_data.visibility # "invisible"
    IN  /\ now <= MaxClock /\ CanWait /\ SunIsScarce
        /\ is_not_locked(user)
        /\ FuseInputValid(user, args)
        /\ deconstruction_errors(user, plot_args) = <<>>
        /\ fusion_result_data # None
        /\ locks' = add_lock(locks, user, "fusion", <<"fuse", fusion_result_data.name>>)
        /\ tasks' = tasks \cup
                {[kind |-> "fuse_wait", user_id |-> user, wake |-> now + FuseTimeout,
                  plot_args |-> plot_args, item_args |-> item_args,
                  fusion_id |-> fusion_result_data.id,
                  ops |-> FuseOps(user, item_args, plot_args, fusion_result_data, is_new)]}
        /\ UNCHANGED <<profileVars, pending_trades, now, flags, tick, all_fusions, call>>

\* fuse_command past the confirmation, with its locals
FuseApply(t) ==
    [kind |-> "fuse_apply", user_id |-> t.user_id, plot_args |-> t.plot_args,
     item_args |-> t.item_args, fusion_id |-> t.fusion_id, ops |-> <<>>]

\* the user answers yes: the lock goes (finally), then the calls are made
FuseConfirm(t) ==
    /\ t.kind = "fuse_wait" /\ CanSave
    /\ locks' = remove_lock_for_user(locks, t.user_id)
    /\ LET r == RunOps(Store, t.ops)
       IN  /\ SetStore(r.store)
           /\ NoTwin(Suspended(FuseApply(t), r.rest))
           /\ tasks' = (tasks \ {t}) \cup Suspended(FuseApply(t), r.rest)
    /\ UNCHANGED <<mastery, time_mastery, last_daily, pending_trades, now, flags, tick, all_fusions, call>>

\* the user answers no
FuseCancel(t) ==
    /\ t.kind = "fuse_wait"
    /\ locks' = remove_lock_for_user(locks, t.user_id)
    /\ tasks' = tasks \ {t}
    /\ UNCHANGED <<profileVars, pending_trades, now, flags, tick, all_fusions, call>>

\* (mutant: the timeout returns without the `finally` that removes the lock)
FuseTimedOut_nofinally(t) ==
    /\ t.kind = "fuse_wait" /\ t.wake <= now
    /\ tasks' = tasks \ {t}
    /\ UNCHANGED <<profileVars, locks, pending_trades, now, flags, tick, all_fusions, call>>

\* asyncio.TimeoutError after 30 seconds
FuseTimedOut(t) ==
    /\ t.kind = "fuse_wait" /\ t.wake <= now
    /\ locks' = remove_lock_for_user(locks, t.user_id)
    /\ tasks' = tasks \ {t}
    /\ UNCHANGED <<profileVars, pending_trades, now, flags, tick, all_fusions, call>>

\* fuse_command resumes after a call was saved
FuseStep(t) ==
    /\ t.kind = "fuse_apply"
    /\ Resume(t)
    /\ UNCHANGED <<mastery, time_mastery, last_daily, locks, pending_trades, now, flags, tick, all_fusions, call>>

\* the awaited calls of sell_command after process_sales
SellOps(user, sale_results) ==
    (IF sale_results.total_earnings > 0
     THEN <<OpAddBalance(user, sale_results.total_earnings)>> ELSE <<>>)
    \o (IF sale_results.mastery_gained > 0
        THEN <<OpIncrementMastery(user, sale_results.mastery_gained)>> ELSE <<>>)
    \o (IF sale_results.time_mastery_gained > 0
        THEN <<OpIncrementTimeMastery(user, sale_results.time_mastery_gained)>> ELSE <<>>)
    \o [k \in 1..Len(sale_results.plots_to_clear) |->
            OpSetPlot(user, sale_results.plots_to_clear[k], None)]

\* sell_command past process_sales, with its locals
SellHandler(user, sale_results) ==
    [kind |-> "sell", user_id |-> user, plots_to_clear |-> sale_results.plots_to_clear,
     ops |-> <<>>]

\* sell_command, up to its first suspension
sell_command(user, slots_to_sell_from) ==
    LET sale_results == process_sales(Store, user, slots_to_sell_from)
        r == RunOps(Store, SellOps(user, sale_results))
    IN  /\ CanSave
        /\ is_not_locked(user)
        /\ slots_to_sell_from # {}
        /\ \/ sale_results.sold_plants_details # <<>>
           \/ sale_results.mastery_gained > 0
           \/ sale_results.time_mastery_gained > 0
        /\ NoTwin(Suspended(SellHandler(user, sale_results), r.rest))
        /\ SetStore(r.store)
        /\ tasks' = tasks \cup Suspended(SellHandler(user, sale_results), r.rest)
        /\ UNCHANGED <<locks, pending_trades, now, flags, tick, all_fusions, call>>

\* sell, issued while little sun is in play
SellCommand(user, slots_to_sell_from) ==
    /\ SunIsScarce
    /\ sell_command(user, slots_to_sell_from)

SellStep(t) ==
    /\ t.kind = "sell"
    /\ Resume(t)
    /\ UNCHANGED <<locks, pending_trades, now, flags, tick, all_fusions, call>>

SeedlingCost == 100     \* cost_per_seedling

\* plant_command, up to its first suspension
PlantCommand(user, slots_to_plant_in) ==
    LET valid_slots_to_plant ==
            SortedSeq({s \in slots_to_plant_in :
                        /\ 1 <= s /\ s <= GardenSize
                        /\ is_slot_unlocked(Store, user, s)
                        /\ garden[user][s] = None})
        actual_cost == Len(valid_slots_to_plant) * SeedlingCost
        ops == <<OpRemoveBalance(user, actual_cost)>>
               \o [k \in 1..Len(valid_slots_to_plant) |->
                      OpPlantSeedling(user, valid_slots_to_plant[k] - 1, "Seedling")]
        r == RunOps(Store, ops)
    IN  /\ CanSave
        /\ is_not_locked(user)
        /\ valid_slots_to_plant # <<>>
        /\ balance[user] >= actual_cost
        /\ NoTwin(Suspended([kind |-> "plant", user_id |-> user, ops |-> <<>>], r.rest))
        /\ SetStore(r.store)
        /\ tasks' = tasks \cup Suspended([kind |-> "plant", user_id |-> user, ops |-> <<>>], r.rest)
        /\ UNCHANGED <<mastery, time_mastery, last_daily, locks, pending_trades, now, flags, tick, all_fusions, call>>

\* plant_command when it returns before its first write: the message is sent
PlantRefused(user, slots_to_plant_in) ==
    LET valid_slots_to_plant ==
            SortedSeq({s \in slots_to_plant_in :
                        /\ 1 <= s /\ s <= GardenSize
                        /\ is_slot_unlocked(Store, user, s)
                        /\ garden[user][s] = None})
        actual_cost == Len(valid_slots_to_plant) * SeedlingCost
    IN  /\ is_not_locked(user)
        /\ \/ slots_to_plant_in = {}
           \/ valid_slots_to_plant = <<>>
           \/ balance[user] < actual_cost
        /\ call' = [op |-> "plant", user_id |-> user,
                    sent |-> IF slots_to_plant_in = {}
                             THEN "Insufficient Parameters for Cultivation"
                             ELSE IF valid_slots_to_plant = <<>>
                                  THEN "Cultivation Protocol Error"
                                  ELSE "Insufficient Solar Energy Reserves"]
        /\ UNCHANGED <<profileVars, tradeVars, flags, tick, all_fusions>>

PlantStep(t) ==
    /\ t.kind = "plant"
    /\ Resume(t)
    /\ UNCHANGED <<mastery, time_mastery, last_daily, locks, pending_trades, now, flags, tick, all_fusions, call>>

\* what shovel_command notes about a slot before it clears it: an entry of
\* cleared_slots_details for a seedling, of error_messages for anything else
ShovelNote(S, user, slot_num_1based) ==
    LET occupant == S.garden[user][slot_num_1based]
    IN  IF occupant = None THEN <<slot_num_1based, "Already unoccupied">>
        ELSE IF occupant.type # "seedling"
             THEN <<slot_num_1based, "Contains a mature plant">>
             ELSE <<slot_num_1based, "cleared">>

\* The loop of shovel_command from the slots still to visit: a slot that is
\* out of range or locked only adds a message; any other slot, whatever it
\* holds, is passed to `await set_garden_plot(..., None)`, where the handler is
\* suspended.  notes are the entries added to the two lists on the way.
RECURSIVE ShovelLoop(_, _, _, _)
ShovelLoop(S, user, slots, notes) ==
    IF slots = <<>> THEN [store |-> S, rest |-> <<>>, notes |-> notes, saved |-> FALSE]
    ELSE LET slot_num_1based == Head(slots)
             plot_idx_0based == slot_num_1based - 1
         IN  IF ~(0 <= plot_idx_0based /\ plot_idx_0based < GardenSize)
             THEN ShovelLoop(S, user, Tail(slots),
                             Append(notes, <<slot_num_1based, "Invalid designation">>))
             ELSE IF ~is_slot_unlocked(S, user, slot_num_1based)
             THEN ShovelLoop(S, user, Tail(slots),
                             Append(notes, <<slot_num_1based, "Access restricted">>))
             ELSE [store |-> set_garden_plot(S, user, plot_idx_0based, None),
                   rest |-> Tail(slots),
                   notes |-> Append(notes, ShovelNote(S, user, slot_num_1based)),
                   saved |-> TRUE]

\* shovel_command suspended in a save, with the slots it has not visited yet;
\* after the last slot only the report is left to send
ShovelHandler(user, r) ==
    IF r.rest = <<>> THEN {}
    ELSE {[kind |-> "shovel", user_id |-> user, slots |-> r.rest, ops |-> <<>>]}

\* shovel_command, up to its first suspension
ShovelCommand(user, slots_to_clear) ==
    LET r == ShovelLoop(Store, user, SortedSeq(slots_to_clear), <<>>)
    IN  /\ CanSave
        /\ is_not_locked(user)
        /\ slots_to_clear # {}
        /\ r.saved
        /\ NoTwin(ShovelHandler(user, r))
        /\ SetStore(r.store)
        /\ tasks' = tasks \cup ShovelHandler(user, r)
        /\ UNCHANGED <<locks, pending_trades, now, flags, tick, all_fusions, call>>

\* shovel_command resumes after a plot was saved: it goes on with its loop
ShovelStep(t) ==
    /\ t.kind = "shovel"
    /\ LET r == ShovelLoop(Store, t.user_id, t.slots, <<>>)
       IN  /\ NoTwin(ShovelHandler(t.user_id, r))
           /\ SetStore(r.store)
           /\ tasks' = (tasks \ {t}) \cup ShovelHandler(t.user_id, r)
    /\ UNCHANGED <<locks, pending_trades, now, flags, tick, all_fusions, call>>

\* The clock.  One second passes (up to MaxClock), or the time until the next
\* sleeper wakes; a sleeper that is due runs before more time passes, and a
\* message being sent is sent before the second is over.
Wakes == {t.wake : t \in {x \in tasks : x.kind \in {"trade_sleep", "fuse_wait"}}}

AdvanceClock ==
    /\ \A t \in tasks : t.kind # "trade_dm"
    /\ \E next \in (IF now < MaxClock THEN {now + 1} ELSE {}) \cup Wakes :
        /\ next > now
        /\ \A w \in Wakes : next <= w
        /\ now' = next
    /\ UNCHANGED <<profileVars, locks, pending_trades, tasks, flags, tick, all_fusions, call>>

---------------------------------------------------------------------------
(* The garden with its commands: u1 has sun, u2 a plant and a material,    *)
(* u3 nothing; u1 and u3 propose trades to u2.                             *)

PlantA == [id |-> "a", name |-> "A", type |-> "base_plant"]

\* X is made of a plant A and a material M, Y of an X and an A
GameCatalog == <<FusionDef("fx", "X", <<"A", "M">>), FusionDef("fy", "Y", <<"X", "A">>)>>

\* register_global(users={}, flags={"plant_growth_duration_minutes": 240})
DefaultDuration == 240
DefaultFlags == [plant_growth_duration_minutes |-> DefaultDuration]

\* the growth loop sleeps until its next cycle; loop_counter = 0 at the start
TickIdle == [pc |-> "idle", loop_counter |-> 0]

\* no helper function was called directly
NoCall == [op |-> "none"]

\* the tables as the cog builds them, and what no command changes
InitTables ==
    /\ fusions = [u \in Users |-> <<>>]
    /\ storage = [u \in Users |-> EmptyShed]
    /\ mastery = [u \in Users |-> 0]
    /\ time_mastery = [u \in Users |-> 0]
    /\ last_daily = [u \in Users |-> None]
    /\ locks = {}
    /\ pending_trades = NoTrades
    /\ tasks = {}
    /\ now = 0
    /\ flags = DefaultFlags
    /\ tick = TickIdle
    /\ all_fusions = GameCatalog
    /\ call = NoCall

Init ==
    /\ balance = [u \in Users |-> IF u = "u1" THEN 1000 ELSE 0]
    /\ garden = [u \in Users |->
                    IF u = "u2" THEN [EmptyGarden EXCEPT ![1] = PlantA] ELSE EmptyGarden]
    /\ inventory = [u \in Users |->
                    IF u = "u2" THEN [EmptyInventory EXCEPT !["m"] = 1] ELSE EmptyInventory]
    /\ InitTables

\* the trade protocol, for the pairs that may trade
TradeNext(pairs) ==
    \/ \E pair \in pairs, money_to_give \in TradeAmounts, want_slots \in SUBSET SlotArgs :
            TradeCommand(pair[1], pair[2], money_to_give, want_slots)
    \/ \E pair \in pairs, sun_offered \in TradeAmounts,
          item_ids \in SeqsUpTo(MaterialIds, MaxItemArgs) :
            TradeItemCommand(pair[1], pair[2], sun_offered, item_ids)
    \/ \E t \in tasks : TradeDmSent(t)
    \/ \E t \in tasks : TradeDmForbidden(t)
    \/ \E t \in tasks : TradeExpire(t)
    \/ \E user \in Users, trade_id \in DOMAIN pending_trades : AcceptCommand(user, trade_id)
    \/ \E t \in tasks : AcceptStep(t)
    \/ \E user \in Users, trade_id \in DOMAIN pending_trades : DeclineCommand(user, trade_id)
    \/ AdvanceClock

Next ==
    \/ TradeNext(TradePairs)
    \/ \E user \in Users, args \in SeqsUpTo(FuseTokens, MaxFuseArgs) : FuseCommand(user, args)
    \/ \E t \in tasks : FuseConfirm(t)
    \/ \E t \in tasks : FuseCancel(t)
    \/ \E t \in tasks : FuseTimedOut(t)
    \/ \E t \in tasks : FuseStep(t)
    \/ \E user \in Users, slots \in SUBSET SlotArgs : SellCommand(user, slots)
    \/ \E t \in tasks : SellStep(t)

Spec == Init /\ [][Next]_vars

---------------------------------------------------------------------------
(* Two pairs at once: u1 proposes to u2 and u3 to u4, each for a plant or  *)
(* a material of the other.                                                *)

BusyPairs == {<<"u1", "u2">>, <<"u3", "u4">>}

InitBusy ==
    /\ balance = [u \in Users |-> IF u = "u1" THEN 1000 ELSE 0]
    /\ garden = [u \in Users |->
                    IF u \in {"u2", "u4"} THEN [EmptyGarden EXCEPT ![1] = PlantA]
                    ELSE EmptyGarden]
    /\ inventory = [u \in Users |->
                    IF u = "u2" THEN [EmptyInventory EXCEPT !["m"] = 1] ELSE EmptyInventory]
    /\ InitTables

NextBusy == TradeNext(BusyPairs)

SpecBusy == InitBusy /\ [][NextBusy]_vars

\* the ids a proposal can get
TradeIds == {<<prefix, n>> : prefix \in {"TR", "TI"}, n \in 0..MaxClock}

\* the suspended handlers of one proposal
TasksOf(kind, pair, trade_id) ==
    {t \in tasks : /\ t.kind = kind /\ t.trade_id = trade_id
                   /\ t.sender_id = pair[1] /\ t.recipient_id = pair[2]}

\* The event loop resumes every handler that is ready, every timer fires,
\* and the clock moves on.
FairBusy ==
    /\ SpecBusy
    /\ SF_vars(AdvanceClock)
    /\ \A pair \in BusyPairs, trade_id \in TradeIds :
        /\ WF_vars(\E t \in TasksOf("trade_dm", pair, trade_id) :
                        TradeDmSent(t) \/ TradeDmForbidden(t))
        /\ WF_vars(\E t \in TasksOf("trade_sleep", pair, trade_id) : TradeExpire(t))
        /\ WF_vars(\E t \in TasksOf("accept", pair, trade_id) : AcceptStep(t))

---------------------------------------------------------------------------
(* Claims about trades and locks.                                          *)

Parties(trade) == {trade.sender_id, trade.recipient_id}
PendingParties == UNION {Parties(pending_trades[id]) : id \in DOMAIN pending_trades}
IsLocked(u) == get_user_lock(locks, u) # None

\* C1: while an accept is between its first and its last transfer, no step
\* other than the resumption of that accept changes the balance, the garden
\* or the inventory of the sender or of the recipient.
C1_AtomicBatch ==
    [][\A t \in tasks :
          t.kind = "accept" =>
              \/ AcceptStep(t)
              \/ UNCHANGED <<balance[t.sender_id], balance[t.recipient_id],
                             garden[t.sender_id], garden[t.recipient_id],
                             inventory[t.sender_id], inventory[t.recipient_id]>>]_vars

\* C2: every lock is eventually released: a user who is locked is unlocked
\* at some later time.
C2_LocksReleased == \A u \in Users : IsLocked(u) ~> ~IsLocked(u)

\* a lock-guarded command of the user starts, or a proposal to the user is made
StartsCommand(u) ==
    \/ \E slots \in SUBSET SlotArgs : SellCommand(u, slots)
    \/ \E args \in SeqsUpTo(FuseTokens, MaxFuseArgs) : FuseCommand(u, args)
    \/ \E v \in Users, money \in TradeAmounts, want_slots \in SUBSET SlotArgs :
            TradeCommand(u, v, money, want_slots) \/ TradeCommand(v, u, money, want_slots)
    \/ \E v \in Users, sun \in TradeAmounts, item_ids \in SeqsUpTo(MaterialIds, MaxItemArgs) :
            TradeItemCommand(u, v, sun, item_ids) \/ TradeItemCommand(v, u, sun, item_ids)

Drifted(trade) ==
    IF trade.trade_type = "plant"
    THEN \E k \in 1..Len(trade.plants_sender_receives_info) :
            LET info == trade.plants_sender_receives_info[k]
                slot == garden[trade.recipient_id][info.r_slot_index + 1]
            IN  ~(IsMature(slot) /\ slot.id = info.plant_data.id)
    ELSE \E k \in 1..Len(trade.items_info_list) :
            LET item == trade.items_info_list[k]
            IN  inventory[trade.recipient_id][item.id] < item.count

\* C4: an accept of a trade whose plot or item count drifted changes no
\* balance, garden or inventory and starts no transfer.
C4_DriftFailsSafely ==
    [][\A user \in Users, id \in DOMAIN pending_trades :
          (Drifted(pending_trades[id]) /\ AcceptCommand(user, id)) =>
              /\ UNCHANGED <<balance, garden, inventory>>
              /\ tasks' = tasks]_vars

\* a drifted trade is pending and its recipient can accept it
C4_Witness ==
    \E id \in DOMAIN pending_trades : Drifted(pending_trades[id]) /\ CanSave

\* the same for an item trade
C4_WitnessItem ==
    \E id \in DOMAIN pending_trades :
        /\ pending_trades[id].trade_type = "item"
        /\ Drifted(pending_trades[id]) /\ CanSave

\* C5: when the 60 seconds of a proposal are over, the locks its sender and
\* its recipient took for it are released.
C5_ExpiryReleases ==
    [][\A t \in tasks :
          TradeExpire(t) =>
              \A lock \in locks' :
                  ~(/\ lock.user_id \in {t.sender_id, t.recipient_id}
                    /\ lock.type = "trade"
                    /\ lock.message[2] \in {t.sender_id, t.recipient_id}
                    /\ lock.message[3] = t.trade_id)]_vars

---------------------------------------------------------------------------
(* The profile primitives called directly, as the debug commands and the   *)
(* handlers call them, next to the plant command; call keeps the last call *)
(* with the balance before and after it.                                   *)

BalanceAmounts == {-500, 0, 300, 1000}   \* amounts the primitives are called with
MaxBalance == 1500                       \* sun is added while the balance stays below this

BalanceCall(op, user_id, amount, S) ==
    [op |-> op, user_id |-> user_id, amount |-> amount,
     before |-> balance[user_id], after |-> S.balance[user_id]]

\* GardenHelper.set_balance, add_balance and remove_balance with any amount
SetBalance(user_id, amount) ==
    LET S == set_balance(Store, user_id, amount)
    IN  /\ SetStore(S)
        /\ call' = BalanceCall("set_balance", user_id, amount, S)
        /\ UNCHANGED <<mastery, time_mastery, last_daily, tradeVars, flags, tick, all_fusions>>

AddBalance(user_id, amount) ==
    LET S == add_balance(Store, user_id, amount)
    IN  /\ balance[user_id] + amount <= MaxBalance
        /\ SetStore(S)
        /\ call' = BalanceCall("add_balance", user_id, amount, S)
        /\ UNCHANGED <<mastery, time_mastery, last_daily, tradeVars, flags, tick, all_fusions>>

RemoveBalance(user_id, amount) ==
    LET S == remove_balance(Store, user_id, amount)
    IN  /\ SetStore(S)
        /\ call' = BalanceCall("remove_balance", user_id, amount, S)
        /\ UNCHANGED <<mastery, time_mastery, last_daily, tradeVars, flags, tick, all_fusions>>

StoreUsers == {"u1"}

InitStore ==
    /\ balance = [u \in Users |-> 0]
    /\ garden = [u \in Users |-> EmptyGarden]
    /\ inventory = [u \in Users |-> EmptyInventory]
    /\ InitTables

NextStore ==
    \/ \E user_id \in StoreUsers, amount \in BalanceAmounts : SetBalance(user_id, amount)
    \/ \E user_id \in StoreUsers, amount \in BalanceAmounts : AddBalance(user_id, amount)
    \/ \E user_id \in StoreUsers, amount \in BalanceAmounts : RemoveBalance(user_id, amount)
    \/ \E user \in StoreUsers, slots \in SUBSET SlotArgs : PlantCommand(user, slots)
    \/ \E t \in tasks : PlantStep(t)

SpecStore == InitStore /\ [][NextStore]_vars

\* C6: no balance is ever negative, and remove_balance called with more than
\* the balance leaves the balance at 0.
C6_BalanceNonNegative ==
    /\ \A u \in Users : balance[u] >= 0
    /\ (call.op = "remove_balance" /\ call.amount > call.before) => call.after = 0

\* remove_balance was called with more than a positive balance
C6_Witness ==
    /\ call.op = "remove_balance"
    /\ call.before > 0 /\ call.amount > call.before
    /\ balance[call.user_id] = 0

---------------------------------------------------------------------------
(* The growth loop.  A cycle runs without suspension from seedling to      *)
(* seedling until one matures; _mature_plant puts the grown plant into the *)
(* plot and suspends the loop in the save.                                 *)

MaxTicks == 3           \* cycles of the growth loop
MaxMastery == 1         \* time mastery levels set by the debug command: 0..MaxMastery
Durations == {1, 2, DefaultDuration}     \* minutes given to debug speed

\* the order in which the loop visits self.data["users"]
UserOrder == <<"u1", "u2", "u3", "u4">>

\* base_plants.json of the model: two plants of the category "vanilla", one
\* of the category "rare"
PlantB == [id |-> "b", name |-> "B", type |-> "base_plant"]
PlantC == [id |-> "c", name |-> "C", type |-> "base_plant"]
BasePlants == {PlantA, PlantB, PlantC}
PlantCategory(plant) == IF plant.id = "c" THEN "rare" ELSE "vanilla"

\* seedlings.json of the model: a seedling that grows twice as fast into a
\* plant of the category "rare", and one of a category no base plant has
SeedlingIds == {"RareSeedling", "LostSeedling"}
SeedlingsData ==
    [s \in SeedlingIds |->
        IF s = "RareSeedling"
        THEN [id |-> s, category |-> "rare", growth_tenths |-> 20, cost |-> 100, stock |-> 2]
        ELSE [id |-> s, category |-> "lost", growth_tenths |-> 10, cost |-> 0, stock |-> 1]]
Categories == {"vanilla", "rare", "lost"}

\* PlantHelper.get_seedling_by_id
get_seedling_by_id(seedling_id) ==
    IF seedling_id \in SeedlingIds THEN SeedlingsData[seedling_id] ELSE None

\* PlantHelper.plants_by_category.get(category)
plants_by_category(category) == {p \in BasePlants : PlantCategory(p) = category}
VanillaPlants == plants_by_category("vanilla")

\* What random.choice returns in get_random_plant_by_category, for every
\* category: one of its plants, None for a category without plants.
Choices ==
    {c \in [Categories -> BasePlants \cup {None}] :
        \A k \in Categories :
            IF plants_by_category(k) = {} THEN c[k] = None
            ELSE c[k] \in plants_by_category(k)}

\* (mutant: every seedling matures into a plant of the category "vanilla")
plant_category_vanilla(seedling_id) == "vanilla"

\* _mature_plant: the category a seedling matures into
plant_category(seedling_id) ==
    IF get_seedling_by_id(seedling_id) # None
    THEN get_seedling_by_id(seedling_id).category
    ELSE "vanilla"

\* (mutant: a failed choice of a plant clears the plot)
mature_plant_clearing(S, user_id, plot_index, seedling_data, choice) ==
    set_garden_plot(S, user_id, plot_index, choice[plant_category(seedling_data.id)])

\* _mature_plant: the store after it
mature_plant(S, user_id, plot_index, seedling_data, choice) ==
    LET grown_plant == choice[plant_category(seedling_data.id)]
    IN  IF grown_plant = None THEN S
        ELSE set_garden_plot(S, user_id, plot_index, grown_plant)

\* growth_multiplier of the seedling's definition (1.0 without one), in tenths
GrowthTenths(seedling_id) ==
    IF get_seedling_by_id(seedling_id) # None
    THEN get_seedling_by_id(seedling_id).growth_tenths
    ELSE 10

\* 1 + time_mastery * 0.1, in tenths
MasteryTenths(user_id) == 10 + time_mastery[user_id]

\* base_progress * time_mastery_bonus * growth_multiplier, in progress units
final_progress(duration, mastery_tenths, growth_tenths) ==
    (Full * mastery_tenths * growth_tenths)
        \div ((IF duration > 0 THEN duration ELSE DefaultDuration) * 100)

\* The list the loop enumerates for the user it is at: user_data["garden"] as
\* long as that is the list object the enumeration started with, the list as
\* it was left once set_full_garden has put another list in its place.
Live == [live |-> TRUE]
Detached(garden_list) == [live |-> FALSE, list |-> garden_list]

\* The loop from plot i of the u-th user on, enumerating the list
\* `enumerated`.  It ends when all users are done or when a seedling reaches
\* 100 and _mature_plant suspends the loop; last is the last
\* update_seedling_progress call.
RECURSIVE GrowthLoopOver(_, _, _, _, _, _, _, _)
GrowthLoopOver(S, enumerated, u, i, bonus, duration, choice, last) ==
    IF u > Len(UserOrder) THEN [store |-> S, done |-> TRUE, last |-> last]
    ELSE IF i > GardenSize
        THEN GrowthLoopOver(S, Live, u + 1, 1,
                            IF u < Len(UserOrder) THEN MasteryTenths(UserOrder[u + 1]) ELSE 10,
                            duration, choice, last)
    ELSE
        LET user_id == UserOrder[u]
            slot_data == IF enumerated.live THEN S.garden[user_id][i] ELSE enumerated.list[i]
        IN  IF ~IsSeedling(slot_data)
                THEN GrowthLoopOver(S, enumerated, u, i + 1, bonus, duration, choice, last)
            ELSE
                LET increase == final_progress(duration, bonus, GrowthTenths(slot_data.id))
                    S1 == update_seedling_progress(S, user_id, i - 1, increase)
                    slot_data_after_update == S1.garden[user_id][i]
                    after == IF IsSeedling(slot_data_after_update)
                             THEN slot_data_after_update.progress ELSE 0
                    this == [op |-> "update_seedling_progress", user_id |-> user_id,
                             plot_index_0based |-> i - 1, increase |-> increase,
                             seedling_id |-> slot_data.id,
                             before |-> slot_data.progress, after |-> after]
                IN  IF after >= Full
                        THEN [store |-> mature_plant(S1, user_id, i - 1,
                                                     slot_data_after_update, choice),
                              done |-> FALSE, u |-> u, i |-> i, bonus |-> bonus,
                              enumerated |-> enumerated, last |-> this]
                        ELSE GrowthLoopOver(S1, enumerated, u, i + 1, bonus, duration,
                                            choice, this)

\* the loop over the lists as the profiles hold them
GrowthLoop(S, u, i, bonus, duration, choice, last) ==
    GrowthLoopOver(S, Live, u, i, bonus, duration, choice, last)

\* where the loop stands after a run of the loop
TickAfter(r, duration) ==
    IF r.done THEN [pc |-> "flush", loop_counter |-> tick.loop_counter]
    ELSE [pc |-> "maturing", loop_counter |-> tick.loop_counter, u |-> r.u, i |-> r.i,
          bonus |-> r.bonus, duration |-> duration, enumerated |-> r.enumerated]

\* the sleep is over: a cycle starts
TickStart(choice) ==
    LET duration == flags.plant_growth_duration_minutes
        r == GrowthLoop(Store, 1, 1, MasteryTenths(UserOrder[1]), duration, choice,
                        NoCall)
    IN  /\ tick.pc = "idle" /\ tick.loop_counter < MaxTicks
        /\ SetStore(r.store)
        /\ tick' = TickAfter(r, duration)
        /\ call' = r.last
        /\ UNCHANGED <<mastery, time_mastery, last_daily, tradeVars, flags, all_fusions>>

\* _mature_plant is done: the cycle goes on with the next plot
TickResume(choice) ==
    LET r == GrowthLoopOver(Store, tick.enumerated, tick.u, tick.i + 1, tick.bonus,
                            tick.duration, choice, call)
    IN  /\ tick.pc = "maturing"
        /\ SetStore(r.store)
        /\ tick' = TickAfter(r, tick.duration)
        /\ call' = r.last
        /\ UNCHANGED <<mastery, time_mastery, last_daily, tradeVars, flags, all_fusions>>

\* the shops are checked, the data is saved, loop_counter += 1, and the loop sleeps
TickFlush ==
    /\ tick.pc = "flush"
    /\ tick' = [pc |-> "idle", loop_counter |-> tick.loop_counter + 1]
    /\ UNCHANGED <<profileVars, tradeVars, flags, all_fusions, call>>

\* (mutant: the exception leaves the loop)
Caught_escaping(t) == [pc |-> "dead", loop_counter |-> t.loop_counter]

\* `except Exception as e`: the loop is in its handler, sending the alert
Caught(t) == [pc |-> "caught", loop_counter |-> t.loop_counter]

\* An awaited call inside the try block raises: the save of a plot that has
\* matured, the alert of a failed maturation, a shop refresh or the save of
\* all data at the end of the cycle.
TickException ==
    /\ tick.pc \in {"maturing", "flush"}
    /\ tick' = Caught(tick)
    /\ UNCHANGED <<profileVars, tradeVars, flags, all_fusions, call>>

\* the alert is sent, loop_counter += 1, and the loop sleeps
TickCaught ==
    /\ tick.pc = "caught"
    /\ tick' = [pc |-> "idle", loop_counter |-> tick.loop_counter + 1]
    /\ UNCHANGED <<profileVars, tradeVars, flags, all_fusions, call>>

\* debug_speed_command
DebugSpeed(minutes) ==
    /\ minutes > 0
    /\ flags' = [flags EXCEPT !.plant_growth_duration_minutes = minutes]
    /\ UNCHANGED <<profileVars, tradeVars, tick, all_fusions, call>>

\* debug_settimemastery_command
DebugSetTimeMastery(level, target_user) ==
    /\ level >= 0
    /\ time_mastery' = [time_mastery EXCEPT ![target_user] = Max(0, level)]
    /\ UNCHANGED <<balance, garden, inventory, fusions, storage, mastery, last_daily,
                   tradeVars, flags, tick, all_fusions, call>>

GrowthUsers == {"u1"}

InitGrowth ==
    /\ balance = [u \in Users |-> IF u \in GrowthUsers THEN 2 * SeedlingCost ELSE 0]
    /\ garden = [u \in Users |-> EmptyGarden]
    /\ inventory = [u \in Users |-> EmptyInventory]
    /\ InitTables

NextGrowth ==
    \/ \E choice \in Choices : TickStart(choice)
    \/ \E choice \in Choices : TickResume(choice)
    \/ TickFlush
    \/ \E user \in GrowthUsers, slots \in SUBSET SlotArgs : PlantCommand(user, slots)
    \/ \E t \in tasks : PlantStep(t)
    \/ \E minutes \in Durations : DebugSpeed(minutes)
    \/ \E level \in 0..MaxMastery, target_user \in GrowthUsers :
            DebugSetTimeMastery(level, target_user)

SpecGrowth == InitGrowth /\ [][NextGrowth]_vars

\* C10: the progress of a seedling is between 0 and 100, no step takes a
\* seedling's progress down, and every update the loop makes returns a
\* progress that is not below the old one and not above 100.
C10_GrowthMonotone ==
    /\ [](\A u \in Users, i \in 1..GardenSize :
            IsSeedling(garden[u][i]) =>
                garden[u][i].progress >= 0 /\ garden[u][i].progress <= Full)
    /\ [](call.op = "update_seedling_progress" =>
            call.after >= call.before /\ call.after <= Full)
    /\ [][\A u \in Users, i \in 1..GardenSize :
            (IsSeedling(garden[u][i]) /\ IsSeedling(garden'[u][i])) =>
                garden'[u][i].progress >= garden[u][i].progress]_vars

\* after two cycles a seedling has grown and is not yet mature, and an
\* update larger than what was missing has been made
C10_Witness ==
    /\ tick.loop_counter >= 2
    /\ \E u \in Users, i \in 1..GardenSize :
            IsSeedling(garden[u][i]) /\ garden[u][i].progress > 0
    /\ call.op = "update_seedling_progress"
    /\ call.before + call.increase > Full /\ call.after = Full

---------------------------------------------------------------------------
(* Crazy Dave's shop and the growth loop: two users buy seedlings of the   *)
(* shop and plant seedlings of their own while the loop runs fast.         *)

MaxStock == 2           \* units of a seedling in Dave's stock: 1..MaxStock
FastDurations == {1, 2} \* minutes given to debug speed

\* _generate_new_dave_stock with an empty dave_shop.json and no shop plants:
\* one entry per seedling definition
DaveStock ==
    [s \in SeedlingIds |->
        [id |-> s, price |-> SeedlingsData[s].cost,
         stock |-> Min(SeedlingsData[s].stock, MaxStock), type |-> "seedling"]]

\* the flags after the startup refresh of the shop
ShopFlags == [plant_growth_duration_minutes |-> DefaultDuration,
              dave_shop_stock |-> DaveStock]

\* next((i for i, s in enumerate(garden) if unlocked and s is None), -1)
first_empty_slot(S, user_id) ==
    LET free == FreePlotIndices(S, user_id, S.garden[user_id])
    IN  IF free = {} THEN -1 ELSE CHOOSE i \in free : \A j \in free : i <= j

\* davebuy_command for a seedling or a material, up to the save of
\* plant_seedling or add_item_to_inventory
DaveBuyCommand(user, item_id) ==
    LET item_to_buy == flags.dave_shop_stock[item_id]
        price == item_to_buy.price
        S == IF item_to_buy.type = "seedling"
             THEN plant_seedling(Store, user, first_empty_slot(Store, user), item_to_buy.id)
             ELSE add_item_to_inventory(Store, user, item_to_buy.id, 1)
        t == [kind |-> "davebuy", user_id |-> user, item_id |-> item_id, price |-> price,
              pc |-> "debit", ops |-> <<>>]
    IN  /\ CanSave
        /\ is_not_locked(user)
        /\ item_id \in DOMAIN flags.dave_shop_stock
        /\ item_to_buy.stock > 0
        /\ balance[user] >= price
        /\ item_to_buy.type \in {"seedling", "material"}
        /\ NoTwin({t})
        /\ SetStore(S)
        /\ tasks' = tasks \cup {t}
        /\ UNCHANGED <<mastery, time_mastery, last_daily, locks, pending_trades, now, flags, tick, all_fusions, call>>

\* self.data["flags"]["dave_shop_stock"][item_index]["stock"] -= 1
StockTaken(item_id) == [flags EXCEPT !.dave_shop_stock[item_id].stock = @ - 1]

\* davebuy_command resumes: remove_balance(price), which suspends it again
\* when the price is positive; otherwise the stock is taken at once
DaveBuyDebit(t) ==
    /\ t.kind = "davebuy" /\ t.pc = "debit"
    /\ SetStore(remove_balance(Store, t.user_id, t.price))
    /\ IF t.price > 0
       THEN /\ NoTwin({[t EXCEPT !.pc = "stock"]})
            /\ tasks' = (tasks \ {t}) \cup {[t EXCEPT !.pc = "stock"]}
            /\ flags' = flags
       ELSE /\ tasks' = tasks \ {t}
            /\ flags' = StockTaken(t.item_id)
    /\ UNCHANGED <<mastery, time_mastery, last_daily, locks, pending_trades, now, tick, all_fusions, call>>

\* davebuy_command resumes after the balance was saved: the stock is taken
DaveBuyStock(t) ==
    /\ t.kind = "davebuy" /\ t.pc = "stock"
    /\ tasks' = tasks \ {t}
    /\ flags' = StockTaken(t.item_id)
    /\ UNCHANGED <<profileVars, locks, pending_trades, now, tick, all_fusions, call>>

\* u1 buys from Dave, u2 plants seedlings of the plant command
Buyers == {"u1"}
Planters == {"u2"}

InitMature ==
    /\ balance = [u \in Users |-> IF u \in Buyers \cup Planters THEN SeedlingCost ELSE 0]
    /\ garden = [u \in Users |-> EmptyGarden]
    /\ inventory = [u \in Users |-> EmptyInventory]
    /\ fusions = [u \in Users |-> <<>>]
    /\ storage = [u \in Users |-> EmptyShed]
    /\ mastery = [u \in Users |-> 0]
    /\ time_mastery = [u \in Users |-> 0]
    /\ last_daily = [u \in Users |-> None]
    /\ locks = {}
    /\ pending_trades = NoTrades
    /\ tasks = {}
    /\ now = 0
    /\ flags = ShopFlags
    /\ tick = TickIdle
    /\ all_fusions = GameCatalog
    /\ call = NoCall

NextMature ==
    \/ \E choice \in Choices : TickStart(choice)
    \/ \E choice \in Choices : TickResume(choice)
    \/ TickFlush
    \/ \E user \in Buyers, item_id \in SeedlingIds : DaveBuyCommand(user, item_id)
    \/ \E t \in tasks : DaveBuyDebit(t)
    \/ \E t \in tasks : DaveBuyStock(t)
    \/ \E user \in Planters, slots \in SUBSET SlotArgs : PlantCommand(user, slots)
    \/ \E t \in tasks : PlantStep(t)
    \/ \E minutes \in FastDurations : DebugSpeed(minutes)
    \/ TickException
    \/ TickCaught

SpecMature == InitMature /\ [][NextMature]_vars

---------------------------------------------------------------------------
(* The growth loop with one planter and awaited calls that may raise.      *)

NextFaulty ==
    \/ \E choice \in Choices : TickStart(choice)
    \/ \E choice \in Choices : TickResume(choice)
    \/ TickFlush
    \/ TickException
    \/ TickCaught
    \/ \E user \in Planters, slots \in SUBSET SlotArgs : PlantCommand(user, slots)
    \/ \E t \in tasks : PlantStep(t)
    \/ \E minutes \in FastDurations : DebugSpeed(minutes)

SpecFaulty == InitMature /\ [][NextFaulty]_vars

\* The event loop resumes the growth loop whenever it is ready: its sleep
\* ends, its awaited calls return or raise.
TickStep ==
    \/ \E choice \in Choices : TickStart(choice) \/ TickResume(choice)
    \/ TickFlush
    \/ TickException
    \/ TickCaught

FairFaulty == SpecFaulty /\ WF_vars(TickStep)

\* the category of the seedling's definition in seedlings.json, "vanilla"
\* for a seedling without definition
DefinedCategory(seedling_id) ==
    IF seedling_id \in SeedlingIds THEN SeedlingsData[seedling_id].category ELSE "vanilla"

\* the growth loop runs a piece of a cycle
TickRuns == tick.pc \in {"idle", "maturing"} /\ tick' # tick

\* the place of a plot in the order of the loop
Pos(u, i) == (u - 1) * GardenSize + i

\* C11: when the loop has raised a seedling to 100 and its category has a
\* base plant, the same step puts a mature plant of that category into the
\* plot; when a cycle is over no seedling of such a category is at 100.
C11_Promotes ==
    /\ [][(/\ TickRuns /\ tick'.pc = "maturing"
           /\ plants_by_category(DefinedCategory(call'.seedling_id)) # {})
          => LET slot == garden'[call'.user_id][call'.plot_index_0based + 1]
             IN  /\ call'.after >= Full
                 /\ IsMature(slot)
                 /\ slot \in plants_by_category(DefinedCategory(call'.seedling_id))]_vars
    /\ [](tick.pc \in {"flush", "idle"} =>
            \A u \in Users, i \in 1..GardenSize :
                (IsSeedling(garden[u][i]) /\ garden[u][i].progress >= Full)
                    => plants_by_category(DefinedCategory(garden[u][i].id)) = {})

\* a bought seedling of the category "rare" has just matured into plant C,
\* in its second cycle
C11_Witness ==
    /\ tick.pc = "maturing"
    /\ call.op = "update_seedling_progress" /\ call.seedling_id = "RareSeedling"
    /\ call.before > 0 /\ call.after = Full
    /\ garden[call.user_id][call.plot_index_0based + 1] = PlantC

\* C12: when the loop has raised a seedling to 100 and its category has no
\* base plant, the plot keeps the seedling at 100 and the step changes nothing
\* but the progress of seedlings; the loop then goes on: every seedling below
\* 100 in a later plot or of a later user is visited in the same cycle.
C12_SkipKeepsSeedling ==
    /\ [][(/\ TickRuns /\ tick'.pc = "maturing"
           /\ plants_by_category(DefinedCategory(call'.seedling_id)) = {})
          => LET u == call'.user_id
                 i == call'.plot_index_0based + 1
             IN  /\ IsSeedling(garden[u][i])
                 /\ garden'[u][i] = [garden[u][i] EXCEPT !.progress = Full]
                 /\ UNCHANGED <<balance, inventory, fusions, mastery, time_mastery, last_daily>>
                 /\ \A v \in Users, j \in 1..GardenSize :
                        \/ garden'[v][j] = garden[v][j]
                        \/ /\ IsSeedling(garden[v][j]) /\ IsSeedling(garden'[v][j])
                           /\ garden'[v][j].id = garden[v][j].id]_vars
    /\ [][(/\ TickRuns /\ tick.pc = "maturing" /\ tick'.pc # "caught"
           /\ IsSeedling(garden[UserOrder[tick.u]][tick.i]))
          => \A v \in 1..Len(UserOrder), j \in 1..GardenSize :
                (/\ Pos(v, j) > Pos(tick.u, tick.i)
                 /\ tick'.pc = "maturing" => Pos(v, j) <= Pos(tick'.u, tick'.i)
                 /\ IsSeedling(garden[UserOrder[v]][j])
                 /\ garden[UserOrder[v]][j].progress < Full)
                    => garden'[UserOrder[v]][j] # garden[UserOrder[v]][j]]_vars

\* a cycle has come to its end although a seedling of u1 is stuck at 100, and
\* the last seedling it raised is one of u2
C12_Witness ==
    /\ tick.pc = "flush"
    /\ \E i \in 1..GardenSize :
            /\ IsSeedling(garden["u1"][i]) /\ garden["u1"][i].id = "LostSeedling"
            /\ garden["u1"][i].progress = Full
    /\ call.op = "update_seedling_progress" /\ call.user_id = "u2"
    /\ call.after > call.before

---------------------------------------------------------------------------
(* The garden and the storage shed: the primitives of GardenHelper called  *)
(* one after the other with the arguments their callers pass; call keeps   *)
(* what the last call returned.                                            *)

MaxHeld == 9            \* seedlings are planted while a user holds fewer plants than this

ShedUsers == {"u1"}
ShedItems == {"storage_shed", "shed_upgrade"}

\* what a call gave back
CallResult(op, user_id, r) ==
    [op |-> op, user_id |-> user_id, success |-> r.success, message |-> r.message,
     raised |-> r.raised]

\* the plants and seedlings a user holds
Held(user_id) ==
    Cardinality({i \in 1..GardenSize : garden[user_id][i] # None})
        + Cardinality({i \in 1..ShedSize : storage[user_id][i] # None})

\* ruxbuy_command: add_item_to_inventory for an item the user does not have
AddItem(user_id, item_id) ==
    /\ inventory[user_id][item_id] = 0
    /\ SetStore(add_item_to_inventory(Store, user_id, item_id, 1))
    /\ call' = [op |-> "add_item_to_inventory", user_id |-> user_id]
    /\ UNCHANGED <<mastery, time_mastery, last_daily, tradeVars, flags, tick, all_fusions>>

\* davebuy_command: plant_seedling into the first free plot, or at index -1
PlantSeedling(user_id, seedling_id) ==
    /\ Held(user_id) < MaxHeld
    /\ SetStore(plant_seedling(Store, user_id, first_empty_slot(Store, user_id), seedling_id))
    /\ call' = [op |-> "plant_seedling", user_id |-> user_id,
                plot_index_0based |-> first_empty_slot(Store, user_id),
                returned |-> "None", raised |-> "none"]
    /\ UNCHANGED <<mastery, time_mastery, last_daily, tradeVars, flags, tick, all_fusions>>

\* _mature_plant: set_garden_plot with the grown plant where a seedling is
SetGardenPlot(user_id, plot_index_0based, plant_data) ==
    /\ IsSeedling(garden[user_id][plot_index_0based + 1])
    /\ SetStore(set_garden_plot(Store, user_id, plot_index_0based, plant_data))
    /\ call' = [op |-> "set_garden_plot", user_id |-> user_id]
    /\ UNCHANGED <<mastery, time_mastery, last_daily, tradeVars, flags, tick, all_fusions>>

\* store_command: store_plant for a plot that holds a mature plant; here also
\* for a user without shed
StorePlant(user_id, plot_index_0based) ==
    LET r == store_plant(Store, user_id, plot_index_0based)
    IN  /\ IsMature(garden[user_id][plot_index_0based + 1])
        /\ SetStore(r.store)
        /\ call' = CallResult("store_plant", user_id, r)
        /\ UNCHANGED <<mastery, time_mastery, last_daily, tradeVars, flags, tick, all_fusions>>

\* unstore_command: unstore_plant for a slot within the capacity that is not empty
UnstorePlant(user_id, storage_index_0based) ==
    LET r == unstore_plant(Store, user_id, storage_index_0based)
    IN  /\ 0 <= storage_index_0based
        /\ storage_index_0based < get_storage_capacity(Store, user_id)
        /\ storage[user_id][storage_index_0based + 1] # None
        /\ SetStore(r.store)
        /\ call' = CallResult("unstore_plant", user_id, r)
        /\ UNCHANGED <<mastery, time_mastery, last_daily, tradeVars, flags, tick, all_fusions>>

\* reorder_command for an order that exchanges the contents of two unlocked
\* plots: new_full_garden_state = list(garden) with the two exchanged
SetFullGarden(user_id, a, b) ==
    LET garden_list == garden[user_id]
        new_full_garden_state ==
            [i \in 1..Len(garden_list) |->
                IF i = a THEN garden_list[b] ELSE IF i = b THEN garden_list[a]
                ELSE garden_list[i]]
    IN  /\ a < b
        /\ is_slot_unlocked(Store, user_id, a) /\ is_slot_unlocked(Store, user_id, b)
        /\ garden_list[a] # garden_list[b]
        /\ SetStore(set_full_garden(Store, user_id, new_full_garden_state))
        /\ call' = [op |-> "set_full_garden", user_id |-> user_id]
        /\ UNCHANGED <<mastery, time_mastery, last_daily, tradeVars, flags, tick, all_fusions>>

\* a persisted garden or storage array: the key is missing, holds something
\* that is no list, or holds a list of some length with a plant in front
RawArray(n) == [i \in 1..n |-> IF i = 1 THEN PlantA ELSE None]
RawLengths == {0} \cup ((ShedSize - 1)..(GardenSize + 1))
RawArrays ==
    {[kind |-> "missing"], [kind |-> "other"]}
        \cup {[kind |-> "list", items |-> RawArray(n)] : n \in RawLengths}

get_user_data_setdefault(user_entry) ==
    [garden |-> IF user_entry.garden.kind = "list" THEN user_entry.garden.items
                ELSE EmptyGarden,
     storage_shed_slots |->
        IF user_entry.storage_shed_slots.kind = "list"
        THEN user_entry.storage_shed_slots.items ELSE EmptyShed]
\* get_user_data: setdefault for a missing key, then arrays that are no list
\* or have another length than 12 and 8 are replaced by the empty default
get_user_data(user_entry) ==
    LET garden_value == user_entry.garden
        slots_value == user_entry.storage_shed_slots
    IN  [garden |->
            IF garden_value.kind = "missing" THEN EmptyGarden
            ELSE IF garden_value.kind # "list" \/ Len(garden_value.items) # GardenSize
                 THEN EmptyGarden
                 ELSE garden_value.items,
         storage_shed_slots |->
            IF slots_value.kind = "missing" THEN EmptyShed
            ELSE IF slots_value.kind # "list" \/ Len(slots_value.items) # ShedSize
                 THEN EmptyShed
                 ELSE slots_value.items]

\* the bot starts with the persisted entry of the user; get_user_data is the
\* first thing every command and every primitive calls
InitShed ==
    \E raw_garden \in RawArrays, raw_slots \in RawArrays :
        LET user_entry == [garden |-> raw_garden, storage_shed_slots |-> raw_slots]
            loaded == get_user_data(user_entry)
        IN  /\ balance = [u \in Users |-> 0]
            /\ garden = [u \in Users |-> IF u \in ShedUsers THEN loaded.garden
                                         ELSE EmptyGarden]
            /\ storage = [u \in Users |-> IF u \in ShedUsers THEN loaded.storage_shed_slots
                                          ELSE EmptyShed]
            /\ inventory = [u \in Users |-> EmptyInventory]
            /\ fusions = [u \in Users |-> <<>>]
            /\ mastery = [u \in Users |-> 0]
            /\ time_mastery = [u \in Users |-> 0]
            /\ last_daily = [u \in Users |-> None]
            /\ locks = {}
            /\ pending_trades = NoTrades
            /\ tasks = {}
            /\ now = 0
            /\ flags = DefaultFlags
            /\ tick = TickIdle
            /\ all_fusions = GameCatalog
            /\ call = [op |-> "get_user_data", user_entry |-> user_entry]

NextShed ==
    \/ \E user_id \in ShedUsers, item_id \in ShedItems : AddItem(user_id, item_id)
    \/ \E user_id \in ShedUsers : PlantSeedling(user_id, "Seedling")
    \/ \E user_id \in ShedUsers, plot \in SlotArgs : SetGardenPlot(user_id, plot - 1, PlantA)
    \/ \E user_id \in ShedUsers, plot \in SlotArgs : StorePlant(user_id, plot - 1)
    \/ \E user_id \in ShedUsers, slot \in SlotArgs : UnstorePlant(user_id, slot - 1)
    \/ \E user_id \in ShedUsers, a, b \in SlotArgs : SetFullGarden(user_id, a, b)

SpecShed == InitShed /\ [][NextShed]_vars

\* what the capacity of the shed is said to be, and the slots in use
StatedCapacity(user_id) ==
    IF inventory[user_id]["storage_shed"] = 0 THEN 0
    ELSE IF inventory[user_id]["shed_upgrade"] = 0 THEN 4 ELSE 8
OccupiedAll(user_id) ==
    Cardinality({i \in 1..Len(storage[user_id]) : storage[user_id][i] # None})

PlantPrecondition(user_id, plot_index_0based) ==
    /\ plot_index_0based \in 0..(GardenSize - 1)
    /\ garden[user_id][plot_index_0based + 1] = None
StorePrecondition(user_id, plot_index_0based) ==
    /\ plot_index_0based \in 0..(GardenSize - 1)
    /\ IsMature(garden[user_id][plot_index_0based + 1])
UnstorePrecondition(user_id, storage_index_0based) ==
    /\ storage_index_0based \in 0..(ShedSize - 1)
    /\ IsMature(storage[user_id][storage_index_0based + 1])
ProfileUnchanged ==
    /\ garden' = garden /\ storage' = storage
    /\ inventory' = inventory /\ balance' = balance

\* C16: store_plant, unstore_plant and plant_seedling check their own
\* precondition (index in range; a mature plant in the source slot for store
\* and unstore; an empty target plot for plant_seedling) and, when it does not
\* hold, return a failure reason, raise nothing and leave the profile as it is.
C16_ChecksPreconditions ==
    [][\A user_id \in ShedUsers :
            /\ (/\ PlantSeedling(user_id, "Seedling")
                /\ ~PlantPrecondition(user_id, first_empty_slot(Store, user_id)))
                    => /\ call'.returned # "None"
                       /\ call'.raised = "none"
                       /\ ProfileUnchanged
            /\ \A plot \in SlotArgs :
                    (StorePlant(user_id, plot - 1) /\ ~StorePrecondition(user_id, plot - 1))
                        => /\ call'.success = FALSE
                           /\ call'.raised = "none"
                           /\ ProfileUnchanged
            /\ \A slot \in SlotArgs :
                    (UnstorePlant(user_id, slot - 1) /\ ~UnstorePrecondition(user_id, slot - 1))
                        => /\ call'.success = FALSE
                           /\ call'.raised = "none"
                           /\ ProfileUnchanged]_vars

---------------------------------------------------------------------------
(* The fusion resolver on its own: a catalog is loaded, then its functions *)
(* are called with bounded inputs; call keeps the last call and its result.  *)

\* the assets a pool can hold: a base plant, a material, a plant of either fusion
AssetKinds == {[id |-> "a", name |-> "A", type |-> "base_plant"],
               [id |-> "m", name |-> "M", type |-> "material"],
               [id |-> "fx", name |-> "X", type |-> "tier2"],
               [id |-> "fy", name |-> "Y", type |-> "tier2"]}

\* get_user_whole_assets_with_source: every asset carries where it comes from
WithSource(kind, i) ==
    [id |-> kind.id, name |-> kind.name, type |-> kind.type,
     source |-> IF kind.type = "material" THEN "inventory" ELSE "garden",
     index |-> IF kind.type = "material" THEN -1 ELSE i - 1]

AssetPools == {[i \in 1..Len(ks) |-> WithSource(ks[i], i)] : ks \in SeqsUpTo(AssetKinds, MaxAssets)}

\* the names a component list given to find_fusion_match is made of
MatchNames == {"A", "M", "X"}

\* the store and the tables as the cog builds them
InitRest ==
    /\ balance = [u \in Users |-> 0]
    /\ garden = [u \in Users |-> EmptyGarden]
    /\ inventory = [u \in Users |-> EmptyInventory]
    /\ fusions = [u \in Users |-> <<>>]
    /\ storage = [u \in Users |-> EmptyShed]
    /\ mastery = [u \in Users |-> 0]
    /\ time_mastery = [u \in Users |-> 0]
    /\ last_daily = [u \in Users |-> None]
    /\ locks = {}
    /\ pending_trades = NoTrades
    /\ tasks = {}
    /\ now = 0
    /\ flags = DefaultFlags
    /\ tick = TickIdle

InitFusion ==
    /\ all_fusions \in Catalogs
    /\ call = NoCall
    /\ InitRest

\* find_fusion_match(components)
MatchQuery ==
    /\ call = NoCall
    /\ \E components \in SeqsUpTo(MatchNames, MaxComponents) :
            call' = [op |-> "match", components |-> components,
                   result |-> find_fusion_match(components)]
    /\ UNCHANGED <<all_fusions, profileVars, tradeVars, flags, tick>>

\* find_crafting_plan(Counter(fusion_def["recipe"]), user_assets, fusion_def["id"]),
\* as the almanac commands call it, for any catalog entry
PlanQueryOver(pools) ==
    /\ call = NoCall
    /\ \E i \in 1..Len(all_fusions), user_assets \in pools :
        LET recipe_counter == Counter(all_fusions[i].recipe)
            fusion_id_to_check == all_fusions[i].id
        IN  call' = [op |-> "plan", recipe_counter |-> recipe_counter,
                   user_assets |-> user_assets, fusion_id_to_check |-> fusion_id_to_check,
                   consumed |-> Consumed(recipe_counter, user_assets, fusion_id_to_check).plan,
                   result |-> find_crafting_plan(recipe_counter, user_assets,
                                                 fusion_id_to_check)]
    /\ UNCHANGED <<all_fusions, profileVars, tradeVars, flags, tick>>

PlanQuery == PlanQueryOver(AssetPools)

NextFusion == MatchQuery \/ PlanQuery

SpecFusion == InitFusion /\ [][NextFusion]_vars

---------------------------------------------------------------------------
(* Claims about the fusion resolver (checked under SpecFusion).            *)

RECURSIVE PlanComponents(_)
\* the deconstructions of all assets of a plan, concatenated
PlanComponents(plan) ==
    IF plan = <<>> THEN <<>>
    ELSE Deconstruct(Head(plan)).components \o PlanComponents(Tail(plan))

\* C7: a returned plan deconstructs to a superset of the requested recipe and
\* holds no asset with the id of the fusion being evaluated.
C7_PlanSound ==
    (call.op = "plan" /\ ~call.result.isNone) =>
        /\ CounterLeq(call.recipe_counter, Counter(PlanComponents(call.result.plan)))
        /\ \A k \in 1..Len(call.result.plan) :
                call.result.plan[k].id # call.fusion_id_to_check

\* a plan of two assets, one of them a fused plant, found for a non-empty recipe
\* while the pool also held a plant of the fusion being evaluated
C7_Witness ==
    /\ call.op = "plan" /\ ~call.result.isNone
    /\ call.recipe_counter # EmptyCounter
    /\ Len(call.result.plan) = 2
    /\ \E k \in 1..2 : call.result.plan[k].type = "tier2"
    /\ \E k \in 1..Len(call.user_assets) : call.user_assets[k].id = call.fusion_id_to_check

\* C8: with no plan, the shortfall is non-empty and recipe = consumed + shortfall.
C8_ShortfallExact ==
    (call.op = "plan" /\ call.result.isNone) =>
        /\ call.result.needed # EmptyCounter
        /\ call.recipe_counter =
                CounterPlus(Counter(PlanComponents(call.consumed)), call.result.needed)

\* no plan, although the search consumed an asset
C8_Witness ==
    /\ call.op = "plan" /\ call.result.isNone
    /\ call.consumed # <<>>
    /\ call.result.needed # EmptyCounter

\* no two catalog entries have the same recipe multiset
UniqueRecipes ==
    \A i, j \in 1..Len(all_fusions) :
        i # j => Counter(all_fusions[i].recipe) # Counter(all_fusions[j].recipe)

Reorderings(seq) ==
    {[i \in 1..Len(seq) |-> seq[p[i]]] :
        p \in {q \in [1..Len(seq) -> 1..Len(seq)] :
                    \A a, b \in 1..Len(seq) : a # b => q[a] # q[b]}}

\* the result is the entry among `among` if there is one, None otherwise, and
\* the same for the components in any order
MatchIsExactly(among) ==
    /\ IF among = {} THEN call.result = None
        ELSE \E i \in among : call.result = all_fusions[i]
    /\ \A perm \in Reorderings(call.components) : find_fusion_match(perm) = call.result

\* C9 as stated: with unique recipe multisets, find_fusion_match returns the
\* recipe whose multiset equals that of the components, none if there is none.
C9_AsStated ==
    (call.op = "match" /\ UniqueRecipes) =>
        MatchIsExactly({i \in 1..Len(all_fusions) :
                          Counter(all_fusions[i].recipe) = Counter(call.components)})

\* C9 amended: the same for recipes with at least one component; a recipe with
\* no component is never returned, not even for an empty component list.
C9_MatchNonEmpty ==
    (call.op = "match" /\ UniqueRecipes) =>
        MatchIsExactly({i \in 1..Len(all_fusions) :
                          /\ all_fusions[i].recipe # <<>>
                          /\ Counter(all_fusions[i].recipe) = Counter(call.components)})

\* a recipe matched by components given in another order than the recipe lists
C9_Witness ==
    /\ call.op = "match" /\ UniqueRecipes
    /\ call.result # None
    /\ call.components # call.result.recipe

---------------------------------------------------------------------------
(* Fusing and the almanac: one user with two plants and two materials, in  *)
(* a catalog that may hold an invisible fusion or a fusion whose recipe    *)
(* does not resolve; the second plot may hold a plant of that fusion, left *)
(* from an earlier catalog.                                                *)

FuseUsers == {"u1"}
InitialMaterials == 2

PlantY == [id |-> "fy", name |-> "Y", type |-> "tier2"]

FuseCatalogs ==
    {GameCatalog,
     <<FusionDef("fx", "X", <<"A", "M">>), FusionDef("fy", "Y", <<"A", "A">>)>>,
     <<[FusionDef("fx", "X", <<"A", "M">>) EXCEPT !.visibility = "invisible"],
       FusionDef("fy", "Y", <<"X", "A">>)>>,
     <<FusionDef("fx", "X", <<"A", "M">>), FusionDef("fy", "Y", <<"Q", "M">>)>>,
     <<FusionDef("fx", "X", <<"A", "M">>), FusionDef("fy", "Y", <<"Y", "A">>)>>}

\* get_user_whole_assets_with_source: the mature plants of the garden, the
\* plants of the shed, one asset per material of the inventory
RECURSIVE PlantAssets(_, _, _)
PlantAssets(slots, i, source) ==
    IF i > Len(slots) THEN <<>>
    ELSE (IF slots[i] # None /\ (source = "storage" \/ slots[i].type # "seedling")
          THEN <<[id |-> slots[i].id, name |-> slots[i].name, type |-> slots[i].type,
                  source |-> source, index |-> i - 1]>>
          ELSE <<>>) \o PlantAssets(slots, i + 1, source)

RECURSIVE MaterialAssets(_, _)
MaterialAssets(items, ids) ==
    IF ids = {} THEN <<>>
    ELSE LET item_id == CHOOSE x \in ids : TRUE
         IN  [k \in 1..items[item_id] |->
                [id |-> item_id, name |-> MaterialsData[item_id], type |-> "material",
                 source |-> "inventory", index |-> -1]]
             \o MaterialAssets(items, ids \ {item_id})

get_user_whole_assets_with_source(S, user_id) ==
    PlantAssets(S.garden[user_id], 1, "garden")
        \o PlantAssets(S.storage[user_id], 1, "storage")
        \o MaterialAssets(S.inventory[user_id], MaterialIds)

\* almanac available / discover: find_crafting_plan for a visible fusion over
\* all the user has
AlmanacQuery(user, i) ==
    LET recipe_counter == Counter(all_fusions[i].recipe)
        user_assets == get_user_whole_assets_with_source(Store, user)
        fusion_id_to_check == all_fusions[i].id
    IN  /\ all_fusions[i].visibility = "visible"
        /\ call' = [op |-> "plan", recipe_counter |-> recipe_counter,
                    user_assets |-> user_assets, fusion_id_to_check |-> fusion_id_to_check,
                    result |-> find_crafting_plan(recipe_counter, user_assets,
                                                  fusion_id_to_check)]
        /\ UNCHANGED <<profileVars, tradeVars, flags, tick, all_fusions>>

InitFuse ==
    /\ all_fusions \in FuseCatalogs
    /\ balance = [u \in Users |-> 0]
    /\ \E second \in {PlantA, PlantY} :
            garden = [u \in Users |->
                        IF u \in FuseUsers
                        THEN [EmptyGarden EXCEPT ![1] = PlantA, ![2] = second]
                        ELSE EmptyGarden]
    /\ inventory = [u \in Users |->
                        IF u \in FuseUsers
                        THEN [EmptyInventory EXCEPT !["m"] = InitialMaterials]
                        ELSE EmptyInventory]
    /\ fusions = [u \in Users |-> <<>>]
    /\ storage = [u \in Users |-> EmptyShed]
    /\ mastery = [u \in Users |-> 0]
    /\ time_mastery = [u \in Users |-> 0]
    /\ last_daily = [u \in Users |-> None]
    /\ locks = {}
    /\ pending_trades = NoTrades
    /\ tasks = {}
    /\ now = 0
    /\ flags = DefaultFlags
    /\ tick = TickIdle
    /\ call = NoCall

NextFuse ==
    \/ \E user \in FuseUsers, args \in SeqsUpTo(FuseTokens, MaxFuseArgs) :
            FuseCommand(user, args)
    \/ \E user \in FuseUsers, args \in SeqsUpTo(FuseTokens, MaxFuseArgs) :
            FuseDeconstructionError(user, args)
    \/ \E t \in tasks : FuseConfirm(t)
    \/ \E t \in tasks : FuseCancel(t)
    \/ \E t \in tasks : FuseTimedOut(t)
    \/ \E t \in tasks : FuseStep(t)
    \/ \E user \in FuseUsers, i \in 1..Len(all_fusions) : AlmanacQuery(user, i)
    \/ AdvanceClock

SpecFuse == InitFuse /\ [][NextFuse]_vars

\* fuse is called with args and gets past the checks of its arguments
FuseAttempt(user, args) == FuseCommand(user, args) \/ FuseDeconstructionError(user, args)

\* a plant selected by args does not deconstruct
SelectionFails(user, args) ==
    \E k \in 1..Len(args) :
        /\ IsDigit(args[k])
        /\ IsMature(garden[user][PlotNum(args[k])])
        /\ Deconstruct(garden[user][PlotNum(args[k])]).errors # <<>>

\* fuse with a plant that does not deconstruct changes nothing, asks for no
\* confirmation and sends the errors
FuseAborts ==
    [][\A user \in FuseUsers, args \in SeqsUpTo(FuseTokens, MaxFuseArgs) :
            (FuseAttempt(user, args) /\ SelectionFails(user, args))
                => /\ UNCHANGED profileVars
                   /\ locks' = locks /\ tasks' = tasks
                   /\ call'.op = "fuse"
                   /\ call'.errors # <<>>]_vars

\* the assets of the pool the search is about: all but those of the fusion
\* being evaluated
Involved(k) == call.user_assets[k].id # call.fusion_id_to_check

\* C17 as stated: no result comes from a request in which the deconstruction
\* of an involved asset reported an error: fuse changes nothing and asks for
\* no confirmation, plan search returns no plan.
C17_ErrorsAbort ==
    /\ FuseAborts
    /\ []((/\ call.op = "plan"
           /\ \E k \in 1..Len(call.user_assets) :
                Involved(k) /\ Deconstruct(call.user_assets[k]).errors # <<>>)
            => call.result.isNone)

\* C17 amended: fuse with a plant that does not deconstruct changes nothing,
\* asks for no confirmation and sends the errors; plan search never puts an
\* asset that does not deconstruct into a plan (it passes it over and searches
\* on among the others).
C17_FuseAbortsPlanSkips ==
    /\ FuseAborts
    /\ []((call.op = "plan" /\ ~call.result.isNone)
            => \A k \in 1..Len(call.result.plan) :
                    Deconstruct(call.result.plan[k]).errors = <<>>)

\* fuse 2 1 was refused for the plant Y of plot 2, whose recipe names an
\* unknown component; no lock, no handler waiting
C17_Witness ==
    /\ call.op = "fuse" /\ call.args = <<"2", "1">>
    /\ call.errors = <<ErrUnknown("Y", "Q")>>
    /\ garden["u1"][2] = PlantY /\ garden["u1"][1] = PlantA
    /\ locks = {} /\ tasks = {}

\* a plan was returned although the pool holds a plant that does not deconstruct
C17_PlanPassesOver ==
    /\ call.op = "plan" /\ ~call.result.isNone
    /\ \E k \in 1..Len(call.user_assets) :
            Involved(k) /\ Deconstruct(call.user_assets[k]).errors # <<>>

\* C20: a confirmed fuse ends with every selected plot empty except the
\* first-mentioned, which holds the product; the selected materials are taken
\* from the inventory; no other plot, storage slot or inventory entry changes;
\* the fusion id is in the discovered fusions exactly once.
C20_FuseResult ==
    [][\A t \in tasks :
        (t.kind \in {"fuse_wait", "fuse_apply"} /\ (FuseConfirm(t) \/ FuseStep(t))) =>
            LET u == t.user_id
                r == RunOps(Store, t.ops)
                made == Len(t.ops) - Len(r.rest)
                fusion_def == all_fusions_by_id(t.fusion_id)
                product == [id |-> fusion_def.id, name |-> fusion_def.name,
                            type |-> fusion_def.type]
                first == PlotNum(t.plot_args[1])
                selected == {PlotNum(t.plot_args[k]) : k \in 1..Len(t.plot_args)}
                places == \E k \in 1..made :
                            t.ops[k].op = "set_garden_plot" /\ t.ops[k].plant_data # None
            IN  /\ \A i \in 1..GardenSize :
                        i \notin selected => garden'[u][i] = garden[u][i]
                /\ storage' = storage
                /\ \A item_id \in ItemIds :
                        inventory'[u][item_id] =
                            inventory[u][item_id]
                                - (IF t.kind = "fuse_wait" THEN CountIn(t.item_args, item_id)
                                   ELSE 0)
                /\ places =>
                        /\ garden'[u][first] = product
                        /\ \A p \in selected \ {first} : garden'[u][p] = None
                /\ r.rest = <<>> =>
                        Cardinality({k \in 1..Len(fusions'[u]) :
                                        fusions'[u][k] = t.fusion_id}) = 1]_vars

\* C21: when the user answers no to a fusion confirmation, or 30 seconds pass
\* without an answer, the fusion is cancelled: no plot, shed slot, inventory
\* item, balance or discovered fusion changes, the handler is gone without
\* making a call, and the user holds no lock afterwards; the timeout is not
\* taken before the 30 seconds are over.
C21_CancelChangesNothing ==
    [][\A t \in tasks :
        (t.kind = "fuse_wait" /\ (FuseCancel(t) \/ FuseTimedOut(t))) =>
            /\ UNCHANGED profileVars
            /\ get_user_lock(locks, t.user_id) # None
            /\ get_user_lock(locks, t.user_id).type = "fusion"
            /\ get_user_lock(locks', t.user_id) = None
            /\ tasks' = tasks \ {t}
            /\ (FuseTimedOut(t) /\ ~FuseCancel(t)) => now >= FuseTimeout]_vars

\* second 30 of a confirmation that was asked for in second 0: it is gone, the
\* user is unlocked and owns what they owned at the start
C21_Witness ==
    /\ now = FuseTimeout /\ tasks = {} /\ locks = {}
    /\ garden["u1"][1] = PlantA /\ garden["u1"][2] \in {PlantA, PlantY}
    /\ inventory["u1"]["m"] = InitialMaterials
    /\ fusions["u1"] = <<>> /\ balance["u1"] = 0

---------------------------------------------------------------------------
(* deconstruct_plant call by call: the frames of the recursion are kept in *)
(* call.stack, the innermost last; a frame is entered (the function's      *)
(* head) and then walks its recipe; components and errors are gathered in  *)
(* the order the returns concatenate them.                                 *)

MaxStack == 4           \* frames of deconstruct_plant open at a time

\* the assets deconstruct_plant is called with: those of a pool, a base plant
\* whose base_plants.json entry has no "type" (process_sales reads such an entry
\* as a base plant), a fused plant that carries a material's name, and a
\* material no catalog knows
DeconAssets ==
    AssetKinds \cup {[id |-> "a", name |-> "A", type |-> "None"],
                     [id |-> "fx", name |-> "M", type |-> "tier2"],
                     [id |-> "q", name |-> "Q", type |-> "material"]}

Frame(plant_data, path) == [plant_data |-> plant_data, path |-> path, i |-> 0, recipe |-> <<>>]
Top == call.stack[Len(call.stack)]
Popped == SubSeq(call.stack, 1, Len(call.stack) - 1)

\* (mutant: no cycle guard)
InPath_unguarded(plant_id, path) == FALSE
\* (mutant: every nested call is taken for a repetition)
InPath_nested(plant_id, path) == path # {}
\* if plant_id in path
InPath(plant_id, path) == plant_id \in path

\* deconstruct_plant(asset), path = set()
DeconstructCall(asset) ==
    /\ call = NoCall
    /\ call' = [op |-> "deconstruct", asset |-> asset, stack |-> <<Frame(asset, {})>>,
               components |-> <<>>, errors |-> <<>>]
    /\ UNCHANGED <<all_fusions, profileVars, tradeVars, flags, tick>>

\* the head of deconstruct_plant, up to the loop over the recipe
DeconstructEnter ==
    /\ call.op = "deconstruct" /\ call.stack # <<>> /\ Top.i = 0
    /\ LET plant_id == Top.plant_data.id
           plant_name == Top.plant_data.name
           fusion_def == all_fusions_by_id(plant_id)
       IN  IF InPath(plant_id, Top.path)
               THEN call' = [call EXCEPT !.stack = Popped,
                                         !.errors = Append(@, ErrRecursion(plant_name))]
           ELSE IF \/ Top.plant_data.type = "material"
                   \/ plant_name \in all_materials_by_name
                   \/ Top.plant_data.type = "base_plant"
               THEN call' = [call EXCEPT !.stack = Popped,
                                         !.components = Append(@, plant_name)]
           ELSE IF fusion_def = None \/ ~fusion_def.hasRecipe
               THEN call' = [call EXCEPT !.stack = Popped,
                                         !.errors = Append(@, ErrMissing(plant_name))]
           ELSE call' = [call EXCEPT !.stack[Len(call.stack)] =
                            [Top EXCEPT !.i = 1, !.path = @ \cup {plant_id},
                                        !.recipe = fusion_def.recipe]]
    /\ UNCHANGED <<all_fusions, profileVars, tradeVars, flags, tick>>

\* one round of `for component_name in fusion_def.get("recipe", [])`, or the return
DeconstructLoop ==
    /\ call.op = "deconstruct" /\ call.stack # <<>> /\ Top.i >= 1
    /\ LET plant_name == Top.plant_data.name
           next == [call EXCEPT !.stack[Len(call.stack)].i = @ + 1]
       IN  IF Top.i > Len(Top.recipe) THEN call' = [call EXCEPT !.stack = Popped]
           ELSE LET component_name == Top.recipe[Top.i]
                IN  IF \/ component_name \in BasePlantNames
                       \/ component_name \in all_materials_by_name
                        THEN call' = [next EXCEPT !.components = Append(@, component_name)]
                    ELSE IF all_fusions_by_name(component_name) # None
                        THEN /\ Len(call.stack) < MaxStack
                             /\ call' = [next EXCEPT !.stack =
                                            Append(@, Frame(all_fusions_by_name(component_name),
                                                            Top.path))]
                    ELSE call' = [next EXCEPT !.errors =
                                    Append(@, ErrUnknown(plant_name, component_name))]
    /\ UNCHANGED <<all_fusions, profileVars, tradeVars, flags, tick>>

DeconstructStep == DeconstructEnter \/ DeconstructLoop

NextDecon ==
    \/ \E asset \in DeconAssets : DeconstructCall(asset)
    \/ DeconstructEnter
    \/ DeconstructLoop

SpecDecon == InitFusion /\ [][NextDecon]_vars

\* the call is not suspended: deconstruct_plant has no await
FairDecon == SpecDecon /\ WF_vars(DeconstructStep)

\* the frame about to be entered is for an id that an open frame already has
IdRepeats ==
    /\ call.op = "deconstruct" /\ call.stack # <<>> /\ Top.i = 0
    /\ \E k \in 1..(Len(call.stack) - 1) : call.stack[k].plant_data.id = Top.plant_data.id

\* C18: deconstruct terminates on every catalog, cyclic ones included; when an
\* id repeats along the current recursion path the branch ends with an
\* 'infinite recursion' error and recurses no further.  (The result is the
\* one the operator deconstruct_plant gives.)
C18_Terminates ==
    /\ (call.op = "deconstruct") ~> (call.op = "deconstruct" /\ call.stack = <<>>)
    /\ [][IdRepeats =>
            /\ call'.stack = Popped
            /\ call'.errors = Append(call.errors, ErrRecursion(Top.plant_data.name))
            /\ call'.components = call.components]_vars
    /\ [](call.op = "deconstruct" /\ call.stack = <<>> =>
            /\ call.components = Deconstruct(call.asset).components
            /\ call.errors = Deconstruct(call.asset).errors)

\* a plant of X was deconstructed in a catalog where X needs Y and Y needs X
C18_Witness ==
    /\ call.op = "deconstruct" /\ call.stack = <<>>
    /\ call.asset.id = "fx"
    /\ all_fusions_by_id("fx").recipe = <<"Y">>
    /\ all_fusions_by_id("fy").recipe = <<"X", "A">>
    /\ call.errors = <<ErrRecursion("X")>>

\* what is said to be a primitive
StatedPrimitive(asset) ==
    \/ asset.type = "material"
    \/ asset.name \in all_materials_by_name
    \/ asset.name \in BasePlantNames

\* C19: for an asset whose type is material, or whose name is a known material
\* name or a known base-plant name, whatever its type tag, deconstruct returns
\* exactly {name}, no error, and looks up no recipe.
C19_PrimitiveByName ==
    (call.op = "deconstruct" /\ StatedPrimitive(call.asset)) =>
        IF call.stack # <<>> THEN Len(call.stack) = 1 /\ Top.i = 0
        ELSE call.components = <<call.asset.name>> /\ call.errors = <<>>

---------------------------------------------------------------------------
(* Tending a garden: one user plants and shovels in the plots 1..3, of     *)
(* which the second holds a plant (plot 7 is locked, there is no plot 0),  *)
(* with up to MaxSaving handlers suspended in their saves at a time.       *)

TendUsers == {"u1"}
TendSlots == {0, 1, 2, 3, FreeSlots + 1}
TendBalance == 300      \* enough for three seedlings, not for four

InitTend ==
    /\ balance = [u \in Users |-> IF u \in TendUsers THEN TendBalance ELSE 0]
    /\ garden = [u \in Users |->
                    IF u \in TendUsers THEN [EmptyGarden EXCEPT ![2] = PlantA]
                    ELSE EmptyGarden]
    /\ inventory = [u \in Users |-> EmptyInventory]
    /\ InitTables

NextTend ==
    \/ \E user \in TendUsers, slots \in SUBSET TendSlots : PlantCommand(user, slots)
    \/ \E user \in TendUsers, slots \in SUBSET TendSlots : PlantRefused(user, slots)
    \/ \E t \in tasks : PlantStep(t)
    \/ \E user \in TendUsers, slots \in SUBSET TendSlots : ShovelCommand(user, slots)
    \/ \E t \in tasks : ShovelStep(t)

SpecTend == InitTend /\ [][NextTend]_vars

\* the slots plant_command may plant in: in range, unlocked and empty
ValidToPlant(user, slots) ==
    {s \in slots : /\ s \in 1..GardenSize
                   /\ (s <= FreeSlots \/ inventory[user][PlotItem(s)] > 0)
                   /\ garden[user][s] = None}

\* the plots the plant handlers that were suspended by this step still plant in
NewPlantings(user) ==
    {o.plot_index_0based + 1 :
        o \in UNION {{t.ops[k] : k \in 1..Len(t.ops)} :
                        t \in {x \in tasks' \ tasks : x.kind = "plant" /\ x.user_id = user}}}

\* C22: plant deducts exactly 100 per requested slot that is in range, unlocked
\* and empty, and goes on to put a seedling with progress 0 in each of these
\* slots and in no other; every slot it writes is empty when it is written;
\* invalid slots in the request do not stop the valid ones; when no requested
\* slot is valid or the balance is below the total cost, nothing changes.
C22_PlantsValidSlots ==
    [][/\ \A user \in TendUsers, slots \in SUBSET TendSlots :
            PlantCommand(user, slots) =>
                LET valid == ValidToPlant(user, slots)
                IN  /\ valid # {}
                    /\ balance[user] >= SeedlingCost * Cardinality(valid)
                    /\ balance'[user] = balance[user] - SeedlingCost * Cardinality(valid)
                    /\ NewPlantings(user) = valid
                    /\ UNCHANGED <<garden, inventory, fusions, storage, mastery, time_mastery, last_daily>>
       /\ \A user \in TendUsers, slots \in SUBSET TendSlots :
            PlantRefused(user, slots) =>
                /\ UNCHANGED <<profileVars, tasks>>
                /\ \/ ValidToPlant(user, slots) = {}
                   \/ balance[user] < SeedlingCost * Cardinality(ValidToPlant(user, slots))
       /\ \A t \in tasks :
            (t.kind = "plant" /\ PlantStep(t)) =>
                LET slot == Head(t.ops).plot_index_0based + 1
                IN  /\ Head(t.ops).op = "plant_seedling"
                    /\ garden[t.user_id][slot] = None
                    /\ garden' = [garden EXCEPT ![t.user_id][slot] =
                                    [id |-> "Seedling", type |-> "seedling", progress |-> 0,
                                     name |-> "Seedling"]]
                    /\ UNCHANGED <<balance, inventory, fusions, storage, mastery,
                                   time_mastery, last_daily>>]_vars

---------------------------------------------------------------------------
(* Selling: one user whose first three plots hold plants of the mastery    *)
(* tiers and of a priced tier, or a plant without a price, a seedling and  *)
(* a base plant; the user's sun mastery at the start is 0, 1 or            *)
(* MaxSunMastery.  process_sales is also called on its own.                *)

SellUsers == {"u1"}
MaxSunMastery == 13

PlantInf == [id |-> "inf", name |-> "Inf", type |-> TierInf]
PlantNegInf == [id |-> "ninf", name |-> "NegInf", type |-> TierNegInf]
PlantT5 == [id |-> "t5", name |-> "T5", type |-> "tier5"]
PlantOdd == [id |-> "odd", name |-> "Odd", type |-> "unknown"]

\* the sun mastery at the start: none, one, the largest, and the levels at
\* which the product of a price differs from its exact value
SellLevels ==
    {0, 1, MaxSunMastery}
        \cup {m \in 0..MaxSunMastery : \E pm \in RoundsBelow : pm[2] = m}

\* the first three plots at the start
SellLayouts ==
    {<<PlantInf, PlantNegInf, PlantT5>>,
     <<PlantOdd, Seedling("Seedling"), PlantA>>}

\* sales_helper.process_sales(user_data, slots_to_sell_from), called on its own
ProcessSales(user, slots_to_sell_from) ==
    /\ call' = [op |-> "process_sales", user_id |-> user, slots |-> slots_to_sell_from,
                results |-> process_sales(Store, user, slots_to_sell_from)]
    /\ UNCHANGED <<profileVars, tradeVars, flags, tick, all_fusions>>

InitSell ==
    /\ balance = [u \in Users |-> 0]
    /\ \E layout \in SellLayouts :
            garden = [u \in Users |->
                        IF u \in SellUsers
                        THEN [i \in 1..GardenSize |-> IF i <= 3 THEN layout[i] ELSE None]
                        ELSE EmptyGarden]
    /\ inventory = [u \in Users |-> EmptyInventory]
    /\ fusions = [u \in Users |-> <<>>]
    /\ storage = [u \in Users |-> EmptyShed]
    /\ \E level \in SellLevels :
            mastery = [u \in Users |-> IF u \in SellUsers THEN level ELSE 0]
    /\ time_mastery = [u \in Users |-> 0]
    /\ last_daily = [u \in Users |-> None]
    /\ locks = {}
    /\ pending_trades = NoTrades
    /\ tasks = {}
    /\ now = 0
    /\ flags = DefaultFlags
    /\ tick = TickIdle
    /\ all_fusions = GameCatalog
    /\ call = NoCall

NextSell ==
    \/ \E user \in SellUsers, slots \in SUBSET TendSlots : sell_command(user, slots)
    \/ \E t \in tasks : SellStep(t)

SpecSell == InitSell /\ [][NextSell]_vars

\* process_sales on its own, for every garden whose first two plots are empty
\* or hold a seedling or one of the plants, and whose third holds a plant that
\* is sold for time mastery or for sun
SalesPlots == {None, Seedling("Seedling"), PlantA, PlantInf, PlantNegInf, PlantT5, PlantOdd}

InitSales ==
    /\ balance = [u \in Users |-> 0]
    /\ \E first \in SalesPlots, second \in SalesPlots, third \in {PlantNegInf, PlantT5} :
            garden = [u \in Users |->
                        IF u \in SellUsers
                        THEN [EmptyGarden EXCEPT ![1] = first, ![2] = second, ![3] = third]
                        ELSE EmptyGarden]
    /\ inventory = [u \in Users |-> EmptyInventory]
    /\ fusions = [u \in Users |-> <<>>]
    /\ storage = [u \in Users |-> EmptyShed]
    /\ \E level \in SellLevels :
            mastery = [u \in Users |-> IF u \in SellUsers THEN level ELSE 0]
    /\ time_mastery = [u \in Users |-> 0]
    /\ last_daily = [u \in Users |-> None]
    /\ locks = {}
    /\ pending_trades = NoTrades
    /\ tasks = {}
    /\ now = 0
    /\ flags = DefaultFlags
    /\ tick = TickIdle
    /\ all_fusions = GameCatalog
    /\ call = NoCall

NextSales == \E user \in SellUsers, slots \in SUBSET TendSlots : ProcessSales(user, slots)

SpecSales == InitSales /\ [][NextSales]_vars

\* what the claims say of a slot of a garden
SlotInRange(slot) == slot \in 1..GardenSize
SlotHoldsPlant(user, slot) ==
    /\ SlotInRange(slot)
    /\ garden[user][slot] # None
    /\ garden[user][slot].type # "seedling"
SlotTier(user, slot) ==
    IF garden[user][slot].type = "None" THEN "base_plant" ELSE garden[user][slot].type
SlotIsPriced(user, slot) ==
    /\ SlotTier(user, slot) \in DOMAIN SALES_PRICES
    /\ SALES_PRICES[SlotTier(user, slot)] > 0
SlotIsSellable(user, slot) ==
    /\ SlotHoldsPlant(user, slot)
    /\ SlotTier(user, slot) \in {TierInf, TierNegInf} \/ SlotIsPriced(user, slot)

\* the values of a sequence
Range(seq) == {seq[k] : k \in 1..Len(seq)}

\* C23: process_sales leaves the profile it is given as it is, and what it
\* does with a requested slot depends on that slot alone: a slot that is out
\* of range, empty, holds a seedling or has no price gets an error message and
\* is not listed for clearing; every other requested slot is listed for
\* clearing exactly once whatever else was requested, and the earnings and
\* mastery gains of the request are the sums of those of its slots.
C23_SlotsIndependent ==
    [][\A user \in SellUsers :
        ProcessSales(user, call'.slots) =>
            LET slots == call'.slots
                results == call'.results
                alone(s) == process_sales(Store, user, {s})
            IN  /\ UNCHANGED profileVars
                /\ \A s \in slots :
                    IF SlotIsSellable(user, s)
                    THEN /\ Cardinality({k \in 1..Len(results.plots_to_clear) :
                                            results.plots_to_clear[k] = s - 1}) = 1
                         /\ \A m \in Range(results.error_messages) : m[1] # s
                    ELSE /\ s - 1 \notin Range(results.plots_to_clear)
                         /\ \E m \in Range(results.error_messages) : m[1] = s
                /\ Range(results.plots_to_clear) \subseteq {s - 1 : s \in slots}
                /\ results.total_earnings =
                        SumOf([s \in slots |-> alone(s).total_earnings], slots)
                /\ results.mastery_gained =
                        SumOf([s \in slots |-> alone(s).mastery_gained], slots)
                /\ results.time_mastery_gained =
                        SumOf([s \in slots |-> alone(s).time_mastery_gained], slots)]_vars

\* process_sales was called for plot 0, a plant without a price, a seedling and
\* a plant of tier5: three error messages, and the plant of tier5 is counted
C23_Witness ==
    /\ call.op = "process_sales" /\ call.slots = {0, 1, 2, 3}
    /\ Len(call.results.error_messages) = 3
    /\ call.results.plots_to_clear = <<2>>
    /\ call.results.total_earnings > 0
    /\ garden["u1"][1] = PlantOdd /\ IsSeedling(garden["u1"][2])
    /\ garden["u1"][3] = PlantT5


\* floor(base_price * (1 + 0.1 * sun_mastery)), in exact arithmetic
ExactFloor(base_price, sun_mastery) == (base_price * (10 + sun_mastery)) \div 10

\* what a sellable slot pays according to the claim
ClaimedPay(user, slot) ==
    IF SlotTier(user, slot) \in {TierInf, TierNegInf} THEN 0
    ELSE ExactFloor(SALES_PRICES[SlotTier(user, slot)], mastery[user])

\* C24: in a sale, every sellable slot of tier_inf adds 1 to sun mastery and
\* pays nothing, every sellable slot of tier_neg_inf adds 1 to time mastery and
\* pays nothing, every other priced slot pays
\* floor(base_price * (1 + 0.1 * sun_mastery)); the sell command credits
\* exactly these amounts, lists every sellable slot for clearing, and when it
\* ends every listed slot is empty.
C24_SalePays ==
    [][/\ \A user \in SellUsers, slots \in SUBSET TendSlots :
            sell_command(user, slots) =>
                LET sellable == {s \in slots : SlotIsSellable(user, s)}
                    results == process_sales(Store, user, slots)
                    goes_on == {t \in tasks' \ tasks : t.kind = "sell" /\ t.user_id = user}
                IN  /\ results.total_earnings =
                            SumOf([s \in sellable |-> ClaimedPay(user, s)], sellable)
                    /\ results.mastery_gained =
                            Cardinality({s \in sellable : SlotTier(user, s) = TierInf})
                    /\ results.time_mastery_gained =
                            Cardinality({s \in sellable : SlotTier(user, s) = TierNegInf})
                    /\ Range(results.plots_to_clear) = {s - 1 : s \in sellable}
                    /\ \A t \in goes_on : t.plots_to_clear = results.plots_to_clear
                    /\ balance'[user] = balance[user] + results.total_earnings
       /\ \A t \in tasks :
            (t.kind = "sell" /\ SellStep(t)) =>
                LET o == Head(t.ops)
                IN  /\ o.op = "increment_mastery" =>
                            mastery'[t.user_id] = mastery[t.user_id] + o.amount
                    /\ o.op = "increment_time_mastery" =>
                            time_mastery'[t.user_id] = time_mastery[t.user_id] + o.amount
                    /\ o.op # "add_balance"
                    /\ tasks' = tasks \ {t} =>
                            \A idx \in Range(t.plots_to_clear) :
                                garden'[t.user_id][idx + 1] = None]_vars


\* C26: shovel removes only seedlings: a requested plot that holds a mature
\* plant is reported ("Contains a mature plant") and still holds that plant
\* after every step of the command.
C26_ShovelKeepsPlants ==
    [][/\ \A user \in TendUsers, slots \in SUBSET TendSlots :
            ShovelCommand(user, slots) =>
                \A s \in slots :
                    SlotHoldsPlant(user, s) => garden'[user][s] = garden[user][s]
       /\ \A t \in tasks :
            (t.kind = "shovel" /\ ShovelStep(t)) =>
                \A s \in Range(t.slots) :
                    SlotHoldsPlant(t.user_id, s) =>
                        garden'[t.user_id][s] = garden[t.user_id][s]]_vars


---------------------------------------------------------------------------
(* The shops.  In SpecShop one user buys from Penny and Dave and looks at   *)
(* the stock while the clock passes refresh boundaries and the growth loop *)
(* goes through its cycles; in SpecStock two users buy from Penny, Rux and *)
(* Dave within one rotation.  Every catalog of the model holds one item.   *)

ShopUsers == {"u1", "u2"}
HourLength == 3600      \* seconds in timedelta(hours=1)
ShopPrice == 100        \* the cost of every item of the shops of the model
ShopBalance == 2 * ShopPrice

PennyItems == {"shed_upgrade"}  \* keys of penny_shop.json
RuxLimited == {"storage_shed"}  \* keys of rux_shop.json of the category "limited"
DaveCatalog == {"m"}            \* keys of dave_shop.json, of the type "material"

\* the moments the clock of the model stops at
ShopTimes == {0, HourLength, 2 * HourLength}

\* f"{item_id}_stock"
StockKey(item_id) == "storage_shed_stock"

\* _generate_new_penny_stock: every item of the catalog, one unit each
PennyStock == [i \in PennyItems |-> [id |-> i, price |-> ShopPrice, stock |-> 1]]

\* _generate_new_dave_stock: the catalog, then the seedlings (no shop plants)
ShopDaveStock ==
    [i \in DaveCatalog \cup SeedlingIds |->
        IF i \in DaveCatalog
        THEN [id |-> i, price |-> ShopPrice, stock |-> 1, type |-> "material"]
        ELSE DaveStock[i]]

\* get_next_penny_refresh_time: the first of the hours 0, interval, 2 * interval,
\* ... of the day that is later than the given time, or hour 0 of the next day;
\* 24 is a multiple of a valid interval, so this is the next multiple of the
\* interval after the given time
get_next_penny_refresh_time(F, current_est_time) ==
    LET given == F.treasure_shop_refresh_interval_hours
        interval == IF given <= 0 \/ 24 % given # 0 THEN 1 ELSE given
        step == interval * HourLength
    IN  (current_est_time \div step + 1) * step

\* (last_refresh_dt + timedelta(hours=1)).replace(minute=0, second=0, microsecond=0)
next_dave_refresh(last_refresh_ts) ==
    ((last_refresh_ts + HourLength) \div HourLength) * HourLength

\* (mutant: only a shop that was never refreshed is refreshed)
penny_needs_refresh_once(F, now_est) == FALSE

\* refresh_penny_shop_if_needed without force: needs_refresh; the startup has
\* refreshed the shop, so last_treasure_shop_refresh is a time
penny_needs_refresh(F, now_est) ==
    now_est >= get_next_penny_refresh_time(F, F.last_treasure_shop_refresh)

\* refresh_dave_shop_if_needed without force: needs_refresh
dave_needs_refresh(F, now_est) ==
    now_est >= next_dave_refresh(F.last_dave_shop_refresh)

\* time passes
ShopClock ==
    /\ \E next \in ShopTimes : next > now /\ now' = next
    /\ UNCHANGED <<profileVars, locks, pending_trades, tasks, flags, tick, all_fusions, call>>

\* the cycle of the growth loop reaches refresh_penny_shop_if_needed: it reads
\* the time and, when a refresh is due, is suspended in log_to_discord
PennyRefreshCheck ==
    /\ tick.pc = "flush"
    /\ tick' = IF penny_needs_refresh(flags, now)
               THEN [pc |-> "penny_log", loop_counter |-> tick.loop_counter,
                     now_est |-> now]
               ELSE [pc |-> "dave_check", loop_counter |-> tick.loop_counter]
    /\ UNCHANGED <<profileVars, tradeVars, flags, all_fusions, call>>

\* the log line is out: the stock is regenerated
PennyRefreshWrite ==
    /\ tick.pc = "penny_log"
    /\ flags' = [flags EXCEPT !.treasure_shop_stock = PennyStock,
                              !.last_treasure_shop_refresh = tick.now_est]
    /\ tick' = [pc |-> "dave_check", loop_counter |-> tick.loop_counter]
    /\ UNCHANGED <<profileVars, tradeVars, all_fusions, call>>

\* refresh_dave_shop_if_needed; without a refresh the data is saved,
\* loop_counter += 1, and the loop sleeps
DaveRefreshCheck ==
    /\ tick.pc = "dave_check"
    /\ tick' = IF dave_needs_refresh(flags, now)
               THEN [pc |-> "dave_log", loop_counter |-> tick.loop_counter,
                     now_est |-> now]
               ELSE [pc |-> "idle", loop_counter |-> tick.loop_counter + 1]
    /\ UNCHANGED <<profileVars, tradeVars, flags, all_fusions, call>>

DaveRefreshWrite ==
    /\ tick.pc = "dave_log"
    /\ flags' = [flags EXCEPT !.dave_shop_stock = ShopDaveStock,
                              !.last_dave_shop_refresh = tick.now_est]
    /\ tick' = [pc |-> "idle", loop_counter |-> tick.loop_counter + 1]
    /\ UNCHANGED <<profileVars, tradeVars, all_fusions, call>>

\* the ids of the entries of a stock with units left
InStock(stock) == {i \in DOMAIN stock : stock[i].stock > 0}

\* pennyshop_command: the stock in the flags is shown as it is, with the
\* next refresh after the present time
PennyShopCommand ==
    /\ call' = [op |-> "pennyshop", shown |-> InStock(flags.treasure_shop_stock),
                next_refresh |-> get_next_penny_refresh_time(flags, now)]
    /\ UNCHANGED <<profileVars, tradeVars, flags, tick, all_fusions>>

\* daveshop_command: the stock in the flags is shown as it is, with the
\* next refresh after the last one
DaveShopCommand ==
    /\ call' = [op |-> "daveshop", shown |-> InStock(flags.dave_shop_stock),
                next_refresh |-> next_dave_refresh(flags.last_dave_shop_refresh)]
    /\ UNCHANGED <<profileVars, tradeVars, flags, tick, all_fusions>>

\* remove_balance and add_item_to_inventory, awaited one after the other
ShopBuyOps(user, price, item_id) ==
    <<OpRemoveBalance(user, price), OpAddItem(user, item_id, 1)>>

\* pennybuy_command or ruxbuy_command suspended in a save; after the last
\* save the stock is still to be written
ShopBuyHandler(kind, user, item_id, rest) ==
    [kind |-> kind, user_id |-> user, item_id |-> item_id, ops |-> rest]

\* pennybuy_command, up to its first suspension
PennyBuyCommand(user, item_id) ==
    LET shop_stock == flags.treasure_shop_stock
        price == shop_stock[item_id].price
        r == RunOps(Store, ShopBuyOps(user, price, item_id))
        t == ShopBuyHandler("pennybuy", user, item_id, r.rest)
    IN  /\ CanSave
        /\ is_not_locked(user)
        /\ item_id \in DOMAIN shop_stock
        /\ shop_stock[item_id].stock > 0
        /\ balance[user] >= price
        /\ NoTwin({t})
        /\ SetStore(r.store)
        /\ tasks' = tasks \cup {t}
        /\ UNCHANGED <<locks, pending_trades, now, flags, tick, all_fusions, call>>

\* a buy handler resumes after a save and goes on to its next save
ShopBuyResume(t) ==
    LET r == RunOps(Store, t.ops)
    IN  /\ t.ops # <<>>
        /\ NoTwin({[t EXCEPT !.ops = r.rest]})
        /\ SetStore(r.store)
        /\ tasks' = (tasks \ {t}) \cup {[t EXCEPT !.ops = r.rest]}
        /\ UNCHANGED <<locks, pending_trades, now, flags, tick, all_fusions, call>>

\* pennybuy_command resumes; after the save of the item
\* treasure_shop_stock[item_index]["stock"] = 0
PennyBuyStep(t) ==
    /\ t.kind = "pennybuy"
    /\ \/ ShopBuyResume(t)
       \/ /\ t.ops = <<>>
          /\ flags' = [flags EXCEPT !.treasure_shop_stock[t.item_id].stock = 0]
          /\ tasks' = tasks \ {t}
          /\ UNCHANGED <<profileVars, locks, pending_trades, now, tick, all_fusions, call>>

\* ruxbuy_command for a limited item, up to its first suspension
RuxBuyCommand(user, actual_item_key) ==
    LET cost == ShopPrice
        r == RunOps(Store, ShopBuyOps(user, cost, actual_item_key))
        t == ShopBuyHandler("ruxbuy", user, actual_item_key, r.rest)
    IN  /\ CanSave
        /\ is_not_locked(user)
        /\ actual_item_key \in RuxLimited
        /\ balance[user] >= cost
        /\ flags[StockKey(actual_item_key)] > 0
        /\ NoTwin({t})
        /\ SetStore(r.store)
        /\ tasks' = tasks \cup {t}
        /\ UNCHANGED <<locks, pending_trades, now, flags, tick, all_fusions, call>>

\* ruxbuy_command resumes; after the save of the item flags[stock_key] -= 1
RuxBuyStep(t) ==
    /\ t.kind = "ruxbuy"
    /\ \/ ShopBuyResume(t)
       \/ /\ t.ops = <<>>
          /\ flags' = [flags EXCEPT ![StockKey(t.item_id)] = @ - 1]
          /\ tasks' = tasks \ {t}
          /\ UNCHANGED <<profileVars, locks, pending_trades, now, tick, all_fusions, call>>

\* the flags after _initialize_global_flags and the refreshes of the startup
ShopInitFlags(interval) ==
    [plant_growth_duration_minutes |-> DefaultDuration,
     treasure_shop_refresh_interval_hours |-> interval,
     treasure_shop_stock |-> PennyStock, last_treasure_shop_refresh |-> 0,
     dave_shop_stock |-> ShopDaveStock, last_dave_shop_refresh |-> 0,
     storage_shed_stock |-> 1]

InitShop ==
    /\ balance = [u \in Users |-> IF u \in ShopUsers THEN ShopBalance ELSE 0]
    /\ garden = [u \in Users |-> EmptyGarden]
    /\ inventory = [u \in Users |-> EmptyInventory]
    /\ fusions = [u \in Users |-> <<>>]
    /\ storage = [u \in Users |-> EmptyShed]
    /\ mastery = [u \in Users |-> 0]
    /\ time_mastery = [u \in Users |-> 0]
    /\ last_daily = [u \in Users |-> None]
    /\ locks = {}
    /\ pending_trades = NoTrades
    /\ tasks = {}
    /\ now = 0
    /\ \E interval \in {1, 2} : flags = ShopInitFlags(interval)
    /\ tick = TickIdle
    /\ all_fusions = GameCatalog
    /\ call = NoCall

\* one user buys and looks at the stock while time passes and the loop runs
Viewers == {"u1"}

NextShop ==
    \/ ShopClock
    \/ \E choice \in Choices : TickStart(choice)
    \/ PennyRefreshCheck
    \/ PennyRefreshWrite
    \/ DaveRefreshCheck
    \/ DaveRefreshWrite
    \/ PennyShopCommand
    \/ DaveShopCommand
    \/ \E user \in Viewers, item_id \in PennyItems : PennyBuyCommand(user, item_id)
    \/ \E t \in tasks : PennyBuyStep(t)
    \/ \E user \in Viewers, item_id \in DaveCatalog : DaveBuyCommand(user, item_id)
    \/ \E t \in tasks : DaveBuyDebit(t)
    \/ \E t \in tasks : DaveBuyStock(t)

\* two users buy from the three shops within one rotation
NextStock ==
    \/ \E user \in ShopUsers, item_id \in PennyItems : PennyBuyCommand(user, item_id)
    \/ \E t \in tasks : PennyBuyStep(t)
    \/ \E user \in ShopUsers, item_id \in RuxLimited : RuxBuyCommand(user, item_id)
    \/ \E t \in tasks : RuxBuyStep(t)
    \/ \E user \in ShopUsers, item_id \in DaveCatalog : DaveBuyCommand(user, item_id)
    \/ \E t \in tasks : DaveBuyDebit(t)
    \/ \E t \in tasks : DaveBuyStock(t)

SpecStock == InitShop /\ [][NextStock]_vars

SpecShop == InitShop /\ [][NextShop]_vars


\* the units of an item the users hold
UnitsHeld(item_id) == SumOf([u \in ShopUsers |-> inventory[u][item_id]], ShopUsers)

\* C30: shop stock is never oversold, whatever the interleaving of the buy
\* commands of different users: within a rotation a Penny item (one unit) is
\* bought at most once, and the stock counters of Rux's limited items and of
\* Dave's items never go below 0.
C30_NeverOversold ==
    /\ \A i \in PennyItems : UnitsHeld(i) <= PennyStock[i].stock
    /\ \A i \in RuxLimited : flags[StockKey(i)] >= 0
    /\ \A i \in DOMAIN flags.dave_shop_stock : flags.dave_shop_stock[i].stock >= 0


\* the end of the rotation the stock in the flags belongs to
PennyRotationEnd(F) == get_next_penny_refresh_time(F, F.last_treasure_shop_refresh)
DaveRotationEnd(F) == next_dave_refresh(F.last_dave_shop_refresh)

\* C25 as stated: a shop-viewing command that runs after the refresh boundary
\* of its shop has passed regenerates the stock first, so that what it shows
\* never belongs to a rotation that has ended.
C25_ViewsShowCurrentRotation ==
    [][/\ PennyShopCommand => now < PennyRotationEnd(flags')
       /\ DaveShopCommand => now < DaveRotationEnd(flags')]_vars

\* C25, amended: only the growth loop checks the shops.  When a cycle reaches
\* the check of a shop, a refresh is started exactly if the boundary has passed
\* since the last refresh of that shop, and it puts the full stock in the flags
\* with the time of the check as the time of the last refresh.  pennyshop and
\* daveshop change no flag and show the stock that is in the flags, and the
\* stock changes only by a refresh of the loop or by a purchase.
C25_LoopRefreshesShops ==
    [][/\ PennyRefreshCheck =>
            (tick'.pc = "penny_log") = (now >= PennyRotationEnd(flags))
       /\ PennyRefreshWrite =>
            flags' = [flags EXCEPT !.treasure_shop_stock = PennyStock,
                                   !.last_treasure_shop_refresh = tick.now_est]
       /\ DaveRefreshCheck =>
            (tick'.pc = "dave_log") = (now >= DaveRotationEnd(flags))
       /\ DaveRefreshWrite =>
            flags' = [flags EXCEPT !.dave_shop_stock = ShopDaveStock,
                                   !.last_dave_shop_refresh = tick.now_est]
       /\ PennyShopCommand =>
            flags' = flags /\ call'.shown = InStock(flags.treasure_shop_stock)
       /\ DaveShopCommand =>
            flags' = flags /\ call'.shown = InStock(flags.dave_shop_stock)
       /\ flags'.treasure_shop_stock # flags.treasure_shop_stock =>
            PennyRefreshWrite \/ \E t \in tasks : PennyBuyStep(t)
       /\ flags'.dave_shop_stock # flags.dave_shop_stock =>
            DaveRefreshWrite \/ \E t \in tasks : DaveBuyDebit(t) \/ DaveBuyStock(t)]_vars

\* pennyshop has shown the sold-out stock of a rotation that had ended: the
\* next refresh it announced is later than the end of the rotation of the stock
C25_Witness ==
    /\ call.op = "pennyshop" /\ call.shown = {}
    /\ call.next_refresh > PennyRotationEnd(flags)
    /\ now >= PennyRotationEnd(flags)
    /\ \A i \in PennyItems : flags.treasure_shop_stock[i].stock = 0
    /\ tick.pc = "idle"


\* the plots the suspended sell handlers of a user have been credited for and
\* have not emptied yet
PlotsBeingSold(user) ==
    UNION {Range(t.plots_to_clear) : t \in {x \in tasks : x.kind = "sell" /\ x.user_id = user}}

\* C28: a plant pays out at most once: a sell command is credited sun or
\* mastery for a plot only if no other sell command of the same user has been
\* credited for that plot and is still about to empty it.
C28_PaysOnce ==
    [][\A user \in SellUsers, slots \in SUBSET TendSlots :
        sell_command(user, slots) =>
            Range(process_sales(Store, user, slots).plots_to_clear)
                \cap PlotsBeingSold(user) = {}]_vars


\* C29: two proposals that are pending at the same time never share a trade
\* id: no step replaces a pending trade by another, so a trade stays pending
\* under its id as it was proposed until it is resolved.
C29_PendingNotReplaced ==
    [][\A id \in DOMAIN pending_trades :
        id \in DOMAIN pending_trades' => pending_trades'[id] = pending_trades[id]]_vars


\* the plots and materials the confirmed fusions of a user are still consuming
BeingFused(user) ==
    UNION {Range(t.plot_args) \cup Range(t.item_args) :
              t \in {x \in tasks : x.kind = "fuse_apply" /\ x.user_id = user}}

\* C27: applying a confirmed fusion is atomic for its user: from the release
\* of the fusion lock to the placement of the product no other fuse of the
\* same user is let in with one of the plots or materials that are being
\* consumed.
C27_FuseAppliesAlone ==
    [][\A user \in FuseUsers, args \in SeqsUpTo(FuseTokens, MaxFuseArgs) :
        FuseCommand(user, args) => Range(args) \cap BeingFused(user) = {}]_vars


---------------------------------------------------------------------------
(* A crowded garden: the first four plots of a user hold plants, plots 5   *)
(* and 6 are empty or hold plants, plots 7 to 12 are locked.  The user     *)
(* buys seedlings from Dave and plants seedlings.                          *)

CrowdedUsers == {"u1"}
CrowdedSlots == {FreeSlots - 1, FreeSlots, FreeSlots + 1}
CrowdedBalance == 3 * SeedlingCost

InitCrowded ==
    /\ balance = [u \in Users |-> IF u \in CrowdedUsers THEN CrowdedBalance ELSE 0]
    /\ \E fifth \in {None, PlantA}, sixth \in {None, PlantA} :
            garden = [u \in Users |->
                        IF u \in CrowdedUsers
                        THEN [i \in 1..GardenSize |->
                                IF i < FreeSlots - 1 THEN PlantA
                                ELSE IF i = FreeSlots - 1 THEN fifth
                                ELSE IF i = FreeSlots THEN sixth ELSE None]
                        ELSE EmptyGarden]
    /\ inventory = [u \in Users |-> EmptyInventory]
    /\ fusions = [u \in Users |-> <<>>]
    /\ storage = [u \in Users |-> EmptyShed]
    /\ mastery = [u \in Users |-> 0]
    /\ time_mastery = [u \in Users |-> 0]
    /\ last_daily = [u \in Users |-> None]
    /\ locks = {}
    /\ pending_trades = NoTrades
    /\ tasks = {}
    /\ now = 0
    /\ flags = ShopFlags
    /\ tick = TickIdle
    /\ all_fusions = GameCatalog
    /\ call = NoCall

NextCrowded ==
    \/ \E user \in CrowdedUsers, item_id \in SeedlingIds : DaveBuyCommand(user, item_id)
    \/ \E t \in tasks : DaveBuyDebit(t)
    \/ \E t \in tasks : DaveBuyStock(t)
    \/ \E user \in CrowdedUsers, slots \in SUBSET CrowdedSlots : PlantCommand(user, slots)
    \/ \E t \in tasks : PlantStep(t)

SpecCrowded == InitCrowded /\ [][NextCrowded]_vars

\* C31: davebuy goes on to debit the price and to take a unit from the stock
\* only if the seedling it sells was placed in an unlocked empty plot of the
\* buyer; a buyer without such a plot is turned away.
C31_DaveBuyNeedsFreePlot ==
    [][\A user \in CrowdedUsers, item_id \in SeedlingIds :
        DaveBuyCommand(user, item_id) =>
            /\ FreePlotIndices(Store, user, garden[user]) # {}
            /\ \E i \in FreePlotIndices(Store, user, garden[user]) :
                    garden' = [garden EXCEPT ![user][i + 1] = Seedling(item_id)]]_vars

\* C32: whatever is put in a garden is written to a plot that is unlocked for
\* the user and empty at that moment: a locked plot stays empty and no
\* occupied plot is overwritten.
C32_WritesToFreePlots ==
    [][\A user \in Users, i \in 1..GardenSize :
        (garden'[user][i] # garden[user][i] /\ garden'[user][i] # None) =>
            /\ garden[user][i] = None
            /\ is_slot_unlocked(Store, user, i)]_vars

---------------------------------------------------------------------------
(* Nested recipes and find_fusion_match.                                   *)

\* the catalog entries whose recipe, deconstructed in full and without
\* error, is the multiset of the given components
DeconstructsTo(components) ==
    {i \in 1..Len(all_fusions) :
        /\ all_fusions[i].recipe # <<>>
        /\ Deconstruct(all_fusions[i]).errors = <<>>
        /\ Counter(Deconstruct(all_fusions[i]).components) = Counter(components)}

\* a catalog in which every recipe has components and resolves to primitives
ResolvedCatalog ==
    \A i \in 1..Len(all_fusions) :
        all_fusions[i].recipe # <<>> /\ Deconstruct(all_fusions[i]).errors = <<>>

\* C33: in a catalog of pairwise distinct recipes that all resolve to
\* primitives, find_fusion_match applied to the fully deconstructed multiset
\* of a fusion F, nested recipes included, returns F.
C33_MatchesDeconstructed ==
    (call.op = "match" /\ UniqueRecipes /\ ResolvedCatalog) =>
        \A i \in DeconstructsTo(call.components) : call.result = all_fusions[i]


---------------------------------------------------------------------------
(* Recipes that name the same fusion more than once.                       *)

\* the catalog entries the recipe of entry i names
NestedIn(i) ==
    {j \in 1..Len(all_fusions) :
        \E k \in 1..Len(all_fusions[i].recipe) :
            /\ all_fusions[i].recipe[k] \notin BasePlantNames \cup all_materials_by_name
            /\ all_fusions[i].recipe[k] = all_fusions[j].name}

RECURSIVE Below(_, _)
\* the entries reached from the entries S in at most n further steps
Below(S, n) == IF n = 0 THEN S ELSE Below(S \cup UNION {NestedIn(j) : j \in S}, n - 1)

\* no recipe reached from entry i leads back to its own fusion
AcyclicFrom(i) ==
    \A j \in Below({i}, Len(all_fusions)) : j \notin Below(NestedIn(j), Len(all_fusions))

RECURSIVE Primitives(_, _)
RECURSIVE PrimitivesOf(_, _, _)
\* the primitives a name stands for, each occurrence expanded on its own
Primitives(name, depth) ==
    IF name \in BasePlantNames \cup all_materials_by_name THEN <<name>>
    ELSE IF depth = 0 \/ all_fusions_by_name(name) = None THEN <<>>
    ELSE PrimitivesOf(all_fusions_by_name(name).recipe, 1, depth - 1)
PrimitivesOf(recipe, k, depth) ==
    IF k > Len(recipe) THEN <<>>
    ELSE Primitives(recipe[k], depth) \o PrimitivesOf(recipe, k + 1, depth)

\* the finished deconstruction of a plant of catalog entry i
DeconstructedEntry(i) ==
    /\ call.op = "deconstruct" /\ call.stack = <<>>
    /\ call.asset.type = "tier2"
    /\ call.asset.id = all_fusions[i].id /\ call.asset.name = all_fusions[i].name

\* C40: deconstructing a fusion none of whose nested recipes leads back to
\* itself reports no 'infinite recursion' error, also when its recipe names the
\* same nested fusion twice, and when every name resolves it returns the full
\* multiset of primitives, a shared component counted once per occurrence.
C40_SharedComponentCounted ==
    \A i \in 1..Len(all_fusions) :
        (DeconstructedEntry(i) /\ AcyclicFrom(i)) =>
            /\ \A e \in 1..Len(call.errors) : call.errors[e][1] # ErrRecursion("X")[1]
            /\ call.errors = <<>> =>
                    call.components = PrimitivesOf(all_fusions[i].recipe, 1, Len(all_fusions))

\* Catalogs of three fusions: Z is made of two fusions, which may be the same
\* one or may share X; the recipe of Y may also lead back to Y.
SharedCatalogs ==
    {<<FusionDef("fx", "X", rx), FusionDef("fy", "Y", ry), FusionDef("fz", "Z", rz)>> :
        rx \in {<<"A", "M">>, <<"A">>},
        ry \in {<<"X", "A">>, <<"A", "M">>, <<"X", "X">>, <<"Y", "A">>},
        rz \in {<<"X", "Y">>, <<"Y", "Y">>, <<"Y", "X">>}}

SharedAssets == AssetKinds \cup {[id |-> "fz", name |-> "Z", type |-> "tier2"]}

InitShared ==
    /\ all_fusions \in SharedCatalogs
    /\ call = NoCall
    /\ InitRest

NextShared ==
    \/ \E asset \in SharedAssets : DeconstructCall(asset)
    \/ DeconstructEnter
    \/ DeconstructLoop

SpecShared == InitShared /\ [][NextShared]_vars

\* a plant of Z was deconstructed where Z is made of X and Y, Y of X and A, and
\* X of A and M: the X inside Y comes after the X of Z itself
C40_Witness ==
    /\ DeconstructedEntry(3)
    /\ all_fusions[1].recipe = <<"A", "M">>
    /\ all_fusions[2].recipe = <<"X", "A">>
    /\ all_fusions[3].recipe = <<"X", "Y">>
    /\ call.components = <<"A", "M", "A", "M", "A">>
    /\ call.errors = <<>>


---------------------------------------------------------------------------
(* Plan search over fused plants of different sizes: three fusions with    *)
(* flat recipes, Z the larger one, and pools of up to MaxAssets assets.    *)

GreedyCatalogs ==
    {<<FusionDef("fx", "X", rx), FusionDef("fy", "Y", ry), FusionDef("fz", "Z", rz)>> :
        rx \in {<<"A", "M", "M">>, <<"A", "M">>},
        ry \in {<<"A", "M">>, <<"A">>},
        rz \in {<<"A", "M", "A", "M">>, <<"A", "M">>}}

GreedyPools ==
    {[i \in 1..Len(ks) |-> WithSource(ks[i], i)] : ks \in SeqsUpTo(SharedAssets, MaxAssets)}

InitGreedy ==
    /\ all_fusions \in GreedyCatalogs
    /\ call = NoCall
    /\ InitRest

NextGreedy == PlanQueryOver(GreedyPools)

SpecGreedy == InitGreedy /\ [][NextGreedy]_vars

\* the assets the last search ran over, and those of them that deconstruct
SearchedAssets == EffectiveAssets(call.user_assets, call.fusion_id_to_check)
ValidIndices ==
    {i \in 1..Len(SearchedAssets) : Deconstruct(SearchedAssets[i]).errors = <<>>}

RECURSIVE CoverOf(_, _)
\* what the assets with an index in S deconstruct to, from index i on
CoverOf(S, i) ==
    IF i > Len(SearchedAssets) THEN EmptyCounter
    ELSE IF i \in S
        THEN CounterPlus(Counter(Deconstruct(SearchedAssets[i]).components), CoverOf(S, i + 1))
    ELSE CoverOf(S, i + 1)

\* the subsets of the valid assets that deconstruct exactly to the recipe
ExactCovers == {S \in SUBSET ValidIndices : CoverOf(S, 1) = call.recipe_counter}

\* the valid assets that fit into the recipe, and the one the search takes
\* first: the largest of them, the earliest of the pool among equals
Fitting ==
    {i \in ValidIndices :
        CounterLeq(Counter(Deconstruct(SearchedAssets[i]).components), call.recipe_counter)}
LargestFitting ==
    CHOOSE i \in Fitting :
        \A j \in Fitting :
            \/ SortKey(SearchedAssets[j]) < SortKey(SearchedAssets[i])
            \/ SortKey(SearchedAssets[j]) = SortKey(SearchedAssets[i]) /\ i <= j

\* C39: plan search is greedy and not complete: it commits to the largest
\* asset that fits, so when no exact cover of the recipe holds that asset the
\* search returns no plan and a non-empty shortfall, whatever subsets of
\* the valid assets deconstruct exactly to the recipe.
C39_GreedyNotComplete ==
    (/\ call.op = "plan"
     /\ Fitting # {}
     /\ \A S \in ExactCovers : LargestFitting \notin S) =>
        call.result.isNone /\ call.result.needed # EmptyCounter

\* no plan and a non-empty shortfall although two assets of the pool
\* deconstruct exactly to the recipe: the search took a larger asset first
C39_Witness ==
    /\ call.op = "plan"
    /\ call.result.isNone /\ call.result.needed # EmptyCounter
    /\ \E S \in ExactCovers : Cardinality(S) = 2
    /\ call.consumed # <<>>


---------------------------------------------------------------------------
(* The daily stipend: two users send `daily` on two calendar dates, with   *)
(* up to MaxSaving handlers suspended in their saves at a time.            *)

DailyUsers == {"u1", "u2"}
DailyStipend == 1000    \* add_balance(ctx.author.id, 1000)
DayLength == 24 * HourLength
\* the clock readings: the start of an EST day and of the next
DailyTimes == {0, DayLength}

\* TimeHelper.get_est_date(): the calendar date of the clock reading, as the
\* number of the day ('%Y-%m-%d' names the day and nothing else)
get_est_date == [day |-> now \div DayLength]

\* a number no suspended daily handler carries (two coroutines of the same
\* command are two objects)
FreshDaily == CHOOSE n \in 0..MaxSaving : \A t \in tasks : t.kind = "daily" => t.n # n

\* daily_command up to its first save, inside add_balance
DailyCommand(user) ==
    LET current_date_est == get_est_date
        ops == <<OpAddBalance(user, DailyStipend), OpSetLastDaily(user, current_date_est)>>
        r == RunOps(Store, ops)
        h == [kind |-> "daily", user_id |-> user, n |-> FreshDaily, ops |-> <<>>]
    IN  /\ CanSave
        /\ is_not_locked(user)
        /\ last_daily[user] # current_date_est
        /\ NoTwin(Suspended(h, r.rest))
        /\ SetStore(r.store)
        /\ tasks' = tasks \cup Suspended(h, r.rest)
        /\ UNCHANGED <<locks, pending_trades, now, flags, tick, all_fusions, call>>

\* daily_command when last_daily is the current date: the message is sent
DailyRefused(user) ==
    /\ is_not_locked(user)
    /\ last_daily[user] = get_est_date
    /\ call' = [op |-> "daily", user_id |-> user, sent |-> "Daily Stipend Already Dispensed"]
    /\ UNCHANGED <<profileVars, tradeVars, flags, tick, all_fusions>>

\* daily_command resumed after the save of add_balance: set_last_daily
DailyStep(t) ==
    /\ t.kind = "daily"
    /\ Resume(t)
    /\ UNCHANGED <<locks, pending_trades, now, flags, tick, all_fusions, call>>

DailyClock ==
    /\ \E next \in DailyTimes : next > now /\ now' = next
    /\ UNCHANGED <<profileVars, locks, pending_trades, tasks, flags, tick, all_fusions, call>>

InitDaily ==
    /\ all_fusions = GameCatalog
    /\ call = NoCall
    /\ InitRest

NextDaily ==
    \/ \E user \in DailyUsers : DailyCommand(user)
    \/ \E user \in DailyUsers : DailyRefused(user)
    \/ \E t \in tasks : DailyStep(t)
    \/ DailyClock

SpecDaily == InitDaily /\ [][NextDaily]_vars

\* the stipend of the current date has been credited to the user: the date is
\* recorded, or the handler that credited it has yet to record it
Credited(user) ==
    \/ last_daily[user] = get_est_date
    \/ \E t \in tasks : /\ t.kind = "daily" /\ t.user_id = user
                        /\ t.ops # <<>> /\ t.ops[1].date_str = get_est_date

\* C34: the stipend is credited to a user at most once per calendar date, also
\* when two daily commands of the user overlap at a suspension point: no
\* balance grows while the stipend of the date is already credited.
C34_StipendOncePerDate ==
    [][\A user \in DailyUsers : balance'[user] > balance[user] => ~Credited(user)]_vars


---------------------------------------------------------------------------
(* remove_balance and its clamp.                                           *)

\* C35: no command calls remove_balance with an amount larger than the
\* balance at the moment of the call, so that max(0, balance - amount) never
\* clamps: when davebuy reaches its debit the buyer still has the price.
C35_ClampNeverEngages ==
    [][\A t \in tasks : DaveBuyDebit(t) => t.price <= balance[t.user_id]]_vars


---------------------------------------------------------------------------
(* Accept, decline and expiry of the same proposal.                        *)

\* an accept, a decline or the expiry timer of the proposal trade_id runs
Resolves(trade_id) ==
    \/ \E user \in Users : AcceptCommand(user, trade_id)
    \/ \E user \in Users : DeclineCommand(user, trade_id)
    \/ \E t \in tasks : t.kind = "trade_sleep" /\ t.trade_id = trade_id /\ TradeExpire(t)

---------------------------------------------------------------------------
(* The growth loop while the gardener reorders and shovels: u1 has a       *)
(* seedling in plot 1, a seedling at 100 that cannot mature in plot 2 (its *)
(* category has no plant: every cycle is suspended there, in the alert of  *)
(* _mature_plant) and a faster seedling in plot 3.                         *)

ReorderUsers == {"u1"}
ReorderSlots == 1..3
ReorderTicks == 1       \* cycles of the growth loop while the gardener is at work

StuckSeedling == [Seedling("LostSeedling") EXCEPT !.progress = Full]

InitReorder ==
    /\ balance = [u \in Users |-> 0]
    /\ garden = [u \in Users |->
                    IF u \in ReorderUsers
                    THEN [EmptyGarden EXCEPT ![1] = Seedling("Seedling"),
                                            ![2] = StuckSeedling,
                                            ![3] = Seedling("RareSeedling")]
                    ELSE EmptyGarden]
    /\ inventory = [u \in Users |-> EmptyInventory]
    /\ InitTables

\* reorder_command for an order that exchanges the contents of two unlocked
\* plots.  set_full_garden binds user_data["garden"] to the new list: a cycle
\* of the loop that is suspended inside this user's garden goes on enumerating
\* the list it started with, which from now on nothing writes to.
ReorderCommand(user_id, a, b) ==
    LET garden_list == garden[user_id]
        new_full_garden_state ==
            [i \in 1..Len(garden_list) |->
                IF i = a THEN garden_list[b] ELSE IF i = b THEN garden_list[a]
                ELSE garden_list[i]]
    IN  /\ is_not_locked(user_id)
        /\ a < b
        /\ is_slot_unlocked(Store, user_id, a) /\ is_slot_unlocked(Store, user_id, b)
        /\ garden_list[a] # garden_list[b]
        /\ SetStore(set_full_garden(Store, user_id, new_full_garden_state))
        /\ tick' = IF /\ tick.pc = "maturing" /\ UserOrder[tick.u] = user_id
                      /\ tick.enumerated.live
                   THEN [tick EXCEPT !.enumerated = Detached(garden_list)]
                   ELSE tick
        /\ UNCHANGED <<tradeVars, flags, all_fusions, call>>

NextReorder ==
    \/ \E choice \in Choices : tick.loop_counter < ReorderTicks /\ TickStart(choice)
    \/ \E choice \in Choices : TickResume(choice)
    \/ TickFlush
    \/ \E user \in ReorderUsers, a, b \in ReorderSlots : ReorderCommand(user, a, b)
    \/ \E user \in ReorderUsers, slots \in SUBSET ReorderSlots : ShovelCommand(user, slots)
    \/ \E t \in tasks : ShovelStep(t)

SpecReorder == InitReorder /\ [][NextReorder]_vars

\* what a seedling planted at 0 has after the cycles completed so far, when
\* every cycle increased it once
GrownOnce(user_id, seedling_id) ==
    Min(Full, tick.loop_counter
                * final_progress(flags.plant_growth_duration_minutes,
                                 MasteryTenths(user_id), GrowthTenths(seedling_id)))

\* C36: within one cycle every seedling is increased exactly once, also when a
\* reorder or a shovel of its owner runs while the cycle is suspended: between
\* two cycles a seedling that was planted at 0 before the first cycle has the
\* increases of the completed cycles, one each.
C36_OncePerTick ==
    tick.pc = "idle" =>
        \A user \in ReorderUsers, i \in 1..GardenSize :
            (IsSeedling(garden[user][i]) /\ garden[user][i].id # StuckSeedling.id) =>
                garden[user][i].progress = GrownOnce(user, garden[user][i].id)


---------------------------------------------------------------------------
(* The progress of a seedling as the double it is.  A double between 0 and *)
(* 256 that is a multiple of 2^-FracBits is the sequence of its binary     *)
(* digits, the most significant first: IntBits digits before the point,    *)
(* FracBits after it.  A result is rounded to Mantissa significant digits, *)
(* ties to even, as the operations of float are.                           *)

Mantissa == 53          \* significant binary digits of a Python float
IntBits  == 8           \* digits before the point
FracBits == 54          \* digits after the point: exact for doubles from 0.25 on

RECURSIVE Pow2(_)
Pow2(n) == IF n = 0 THEN 1 ELSE 2 * Pow2(n - 1)

\* the digits of the integer n, with frac zeros after the point
Fixed(n, frac) ==
    [k \in 1..(IntBits + frac) |-> IF k <= IntBits THEN (n \div Pow2(IntBits - k)) % 2 ELSE 0]

ZeroBits == Fixed(0, FracBits)
Hundred == Fixed(100, FracBits)

\* the carry into digit k of x + y: some lower digit generates one and every
\* digit between passes it on
Carry(x, y, k) ==
    IF \E j \in (k + 1)..Len(x) :
           x[j] + y[j] = 2 /\ \A i \in (k + 1)..(j - 1) : x[i] + y[i] = 1
    THEN 1 ELSE 0

\* the digits of x + y, for two sequences of the same length and a sum that
\* fits in it
SumBits(x, y) == [k \in 1..Len(x) |-> (x[k] + y[k] + Carry(x, y, k)) % 2]

\* x >= y, for two sequences of the same length
BitsGeq(x, y) ==
    \/ x = y
    \/ \E k \in 1..Len(x) : x[k] = 1 /\ y[k] = 0 /\ \A j \in 1..(k - 1) : x[j] = y[j]

\* The double nearest to the number with the digits `exact`, followed by
\* further digits that are not all zero iff `sticky`; ties go to the even
\* mantissa.  The result has FracBits digits after the point.
RoundDouble(exact, sticky) ==
    IF \A k \in 1..Len(exact) : exact[k] = 0 THEN ZeroBits
    ELSE
        LET first == CHOOSE k \in 1..Len(exact) :
                        exact[k] = 1 /\ \A j \in 1..(k - 1) : exact[j] = 0
            last == first + Mantissa - 1
            kept == [k \in 1..Len(exact) |-> IF k <= last THEN exact[k] ELSE 0]
            guard == last < Len(exact) /\ exact[last + 1] = 1
            tail == sticky \/ \E k \in (last + 2)..Len(exact) : exact[k] = 1
            up == guard /\ (tail \/ exact[last] = 1)
            ulp == [k \in 1..Len(exact) |-> IF k = last THEN 1 ELSE 0]
            rounded == IF up THEN SumBits(kept, ulp) ELSE kept
        IN  SubSeq(rounded, 1, IntBits + FracBits)

\* x + y of two doubles
DoublePlus(x, y) == RoundDouble(SumBits(x, y), FALSE)

\* what is left of rem / d after j digits after the point, for rem < d
Remainder(rem, d, j) ==
    LET left[i \in 0..j] == IF i = 0 THEN rem ELSE (2 * left[i - 1]) % d
    IN  left[j]

\* the first n digits after the point of rem / d, for rem < d
QuotientBits(rem, d, n) == [j \in 1..n |-> (2 * Remainder(rem, d, j - 1)) \div d]

\* n / d of two doubles that are integers, 0 < d, n / d >= 0.25
DoubleQuotient(n, d) ==
    RoundDouble(Fixed(n \div d, 0) \o QuotientBits(n % d, d, FracBits + 2),
                Remainder(n % d, d, FracBits + 2) # 0)

\* base_progress = 100.0 / (growth_duration if growth_duration > 0 else 240)
base_progress(growth_duration) ==
    DoubleQuotient(100, IF growth_duration > 0 THEN growth_duration ELSE DefaultDuration)

\* base_progress * time_mastery_bonus * growth_multiplier for time mastery 0,
\* where time_mastery_bonus = 1 + (0 * 0.1) is 1.0, and for the multipliers
\* 1.0 and 2.0: both products are exact
final_progress_double(growth_duration, time_mastery_level, growth_tenths) ==
    CASE time_mastery_level = 0 /\ growth_tenths = 10 -> base_progress(growth_duration)
      [] time_mastery_level = 0 /\ growth_tenths = 20 ->
            Tail(base_progress(growth_duration)) \o <<0>>

\* min(current_progress + progress_increase, 100.0)
new_progress(current_progress, progress_increase) ==
    LET sum == DoublePlus(current_progress, progress_increase)
    IN  IF BitsGeq(sum, Hundred) THEN Hundred ELSE sum


\* update_seedling_progress on doubles
update_seedling_progress_double(S, user_id, plot_index_0based, progress_increase) ==
    IF /\ 0 <= plot_index_0based /\ plot_index_0based < GardenSize
       /\ IsSeedling(S.garden[user_id][plot_index_0based + 1])
    THEN [S EXCEPT !.garden[user_id][plot_index_0based + 1].progress =
                        new_progress(@, progress_increase)]
    ELSE S

RECURSIVE RipenLoop(_, _, _, _, _, _)
\* The loop of a cycle from plot i of the u-th user on, with the progress of
\* the seedlings held as doubles.
RipenLoop(S, u, i, duration, choice, last) ==
    IF u > Len(UserOrder) THEN [store |-> S, done |-> TRUE, last |-> last]
    ELSE IF i > GardenSize THEN RipenLoop(S, u + 1, 1, duration, choice, last)
    ELSE
        LET user_id == UserOrder[u]
            slot_data == S.garden[user_id][i]
        IN  IF ~IsSeedling(slot_data) THEN RipenLoop(S, u, i + 1, duration, choice, last)
            ELSE
                LET increase == final_progress_double(duration, S.time_mastery[user_id],
                                                      GrowthTenths(slot_data.id))
                    S1 == update_seedling_progress_double(S, user_id, i - 1, increase)
                    slot_data_after_update == S1.garden[user_id][i]
                    this == [op |-> "update_seedling_progress", user_id |-> user_id,
                             plot_index_0based |-> i - 1, seedling_id |-> slot_data.id,
                             before |-> slot_data.progress,
                             after |-> slot_data_after_update.progress]
                IN  IF BitsGeq(slot_data_after_update.progress, Hundred)
                        THEN [store |-> mature_plant(S1, user_id, i - 1,
                                                     slot_data_after_update, choice),
                              done |-> FALSE, u |-> u, i |-> i,
                              bonus |-> MasteryTenths(user_id), enumerated |-> Live,
                              last |-> this]
                        ELSE RipenLoop(S1, u, i + 1, duration, choice, this)

RipenTicks == 241       \* cycles of the loop

\* the sleep is over: a cycle starts
RipenStart(choice) ==
    LET duration == flags.plant_growth_duration_minutes
        r == RipenLoop(Store, 1, 1, duration, choice, NoCall)
    IN  /\ tick.pc = "idle" /\ tick.loop_counter < RipenTicks
        /\ SetStore(r.store)
        /\ tick' = TickAfter(r, duration)
        /\ call' = r.last
        /\ UNCHANGED <<mastery, time_mastery, last_daily, tradeVars, flags, all_fusions>>

\* _mature_plant is done: the cycle goes on with the next plot
RipenResume(choice) ==
    LET r == RipenLoop(Store, tick.u, tick.i + 1, tick.duration, choice, call)
    IN  /\ tick.pc = "maturing"
        /\ SetStore(r.store)
        /\ tick' = TickAfter(r, tick.duration)
        /\ call' = r.last
        /\ UNCHANGED <<mastery, time_mastery, last_daily, tradeVars, flags, all_fusions>>

RipenUsers == {"u1"}
RipenDurations == {12, 16, 24, DefaultDuration}

\* what plant_seedling has put into the plots of u1, with progress 0.0
RipenGarden ==
    [EmptyGarden EXCEPT ![1] = [Seedling("Seedling") EXCEPT !.progress = ZeroBits],
                        ![2] = [Seedling("RareSeedling") EXCEPT !.progress = ZeroBits]]

\* debug_speed_command has set the duration before the seedlings were planted
InitRipen ==
    /\ balance = [u \in Users |-> 0]
    /\ garden = [u \in Users |-> IF u \in RipenUsers THEN RipenGarden ELSE EmptyGarden]
    /\ inventory = [u \in Users |-> EmptyInventory]
    /\ fusions = [u \in Users |-> <<>>]
    /\ storage = [u \in Users |-> EmptyShed]
    /\ mastery = [u \in Users |-> 0]
    /\ time_mastery = [u \in Users |-> 0]
    /\ last_daily = [u \in Users |-> None]
    /\ locks = {}
    /\ pending_trades = NoTrades
    /\ tasks = {}
    /\ now = 0
    /\ \E minutes \in RipenDurations :
            flags = [DefaultFlags EXCEPT !.plant_growth_duration_minutes = minutes]
    /\ tick = TickIdle
    /\ all_fusions = GameCatalog
    /\ call = NoCall

NextRipen ==
    \/ \E choice \in Choices : RipenStart(choice)
    \/ \E choice \in Choices : RipenResume(choice)
    \/ TickFlush

SpecRipen == InitRipen /\ [][NextRipen]_vars

\* ceil(growth_duration / ((1 + 0.1 * m) * g))
TicksToMature(growth_duration, mastery_tenths, growth_tenths) ==
    (growth_duration * 100 + mastery_tenths * growth_tenths - 1)
        \div (mastery_tenths * growth_tenths)

\* C38: with the tick running, a seedling planted at progress 0 whose
\* category has a base plant and which is not shovelled is a mature plant
\* once ceil(growth_duration / ((1 + 0.1 m) g)) cycles of the loop are over.
C38_MatureInTime ==
    \A user \in RipenUsers, i \in 1..GardenSize :
        (/\ IsSeedling(RipenGarden[i])
         /\ plants_by_category(plant_category(RipenGarden[i].id)) # {}
         /\ tick.pc = "idle"
         /\ tick.loop_counter >=
                TicksToMature(flags.plant_growth_duration_minutes, MasteryTenths(user),
                              GrowthTenths(RipenGarden[i].id))) =>
            IsMature(garden[user][i])

=============================================================================
